---- MODULE Spec2Model ----
(***************************************************************************)
(* Service supervisor (start / stop / restart / status of the backend and  *)
(* frontend services) and remote command dispatch of the BrainDrive        *)
(* bootstrapper, modelled from dispatcher.rs, process_manager.rs,          *)
(* websocket.rs and lib.rs.                                                *)
(*                                                                         *)
(* Granularity: every block of code between two await points (lock         *)
(* acquisition, timed wait) is one action.  The operating system (services *)
(* binding their port, processes dying, other programs taking ports) is    *)
(* the environment and moves between any two actions.                      *)
(***************************************************************************)
EXTENDS Integers, Sequences, FiniteSets, TLC

(***************************************************************************)
(* Bounds of the model                                                     *)
(***************************************************************************)
\* number of processes the supervisor may spawn in one behaviour
MaxPid == 2
\* number of connections opened to the controller in one behaviour
MaxConn == 1
\* number of commands the controller sends in one behaviour
MaxCmd == 1
\* number of Progress events one handler emits
MaxProgress == 1

(***************************************************************************)
(* Program constants                                                       *)
(***************************************************************************)
DOWNLOAD_MAX_RETRIES == 3
BACKEND_PORTS == <<8005, 8006, 8007>>
FRONTEND_PORTS == <<5173, 5174, 5175>>
default_backend_port == 8005
default_frontend_port == 5173

\* Option::None of an Option<u32> pid and of an Option<u16> port
NoPid == 0
NoPort == 0

\* ports a caller may pass as preferred ports
BackendPrefs == {8005, 8010}
FrontendPrefs == {5173, 5180}

\* the <<frontend_port, backend_port>> a caller passes to start in the
\* scenarios explored: the defaults, and ports outside the fallback lists
StartArgs == {<<5173, 8005>>, <<5180, 8010>>}

SeqToSet(s) == {s[i] : i \in 1..Len(s)}
Ports == SeqToSet(BACKEND_PORTS) \cup SeqToSet(FRONTEND_PORTS)
            \cup BackendPrefs \cup FrontendPrefs
Pids == 1..MaxPid

\* the sets of ports that programs outside the supervisor hold in the
\* scenarios explored: nothing, the default port of a slot, every fixed
\* candidate of a slot
ForeignSets ==
    {{}, {8005}, SeqToSet(BACKEND_PORTS), {5173}, SeqToSet(FRONTEND_PORTS)}

\* the tasks that can run a supervisor operation: the channel's read loop
\* and a GUI (tauri) command
Callers == {"ws", "gui"}

VARIABLES
    state,      \* BrainDriveState: [backend, frontend], each a ServiceInfo or NoService
    call,       \* per caller: the frame of the supervisor operation it is running
    procs,      \* per pid: the process the supervisor spawned under that pid
    nextPid,    \* pid the next spawn returns
    foreign,    \* ports held by programs the supervisor did not spawn
    ws_sender,    \* AppState.ws_sender: the connection whose write half is installed, or NoConn
    ws_connected, \* AppState.ws_connected
    conn,       \* per connection: its link, the position of connect() and of its read loop
    cmds,       \* per command id: its type and what became of it
    wire        \* the messages written to the channel, in order

supvars == <<state, call, procs, nextPid, foreign>>
wsvars == <<ws_sender, ws_connected, conn, cmds, wire>>
vars == <<state, call, procs, nextPid, foreign,
          ws_sender, ws_connected, conn, cmds, wire>>

(***************************************************************************)
(* Data model (process_manager.rs)                                         *)
(***************************************************************************)
\* Option<ServiceInfo>::None
NoService == [name |-> "none", pid |-> NoPid, port |-> NoPort, running |-> FALSE]

ServiceInfo(name, pid, port, running) ==
    [name |-> name, pid |-> pid, port |-> port, running |-> running]

IsSome(s) == s.name # "none"

\* BrainDriveState::default()
new_process_state == [backend |-> NoService, frontend |-> NoService]

NoProc == [slot |-> "none", port |-> NoPort, st |-> "unborn"]

IsAlive(pid) == pid \in Pids /\ procs[pid].st \in {"starting", "listening"}

\* is_port_in_use: something accepts connections on the port, whoever it is
is_port_in_use(port) ==
    \/ port \in foreign
    \/ \E p \in Pids : procs[p].st = "listening" /\ procs[p].port = port


\* kill_process(pid) (unix), its return value: true exactly when kill -TERM
\* succeeded, that is when the process existed; nothing is checked after the
\* SIGKILL that follows the grace period
kill_process(pid) == IsAlive(pid)

Dead == [slot |-> "none", port |-> NoPort, st |-> "dead"]

\* the process table once the process pid is gone
AfterKill(pr, pid) ==
    IF pid \in Pids /\ pr[pid].st \in {"starting", "listening"}
    THEN [pr EXCEPT ![pid] = Dead]
    ELSE pr

\* the outcomes of kill_process(pid) on the process table: the process is
\* gone (it heeded SIGTERM, or SIGKILL took effect), or it is still there
\* when kill_process returns (it ignored SIGTERM and the unchecked SIGKILL
\* failed or has not taken effect yet)
KillOutcomes(pr, pid) == {AfterKill(pr, pid), pr}

\* spawn_detached: a new process under a fresh pid, told to serve on port
AfterSpawn(pr, pid, slot, port) ==
    [pr EXCEPT ![pid] = [slot |-> slot, port |-> port, st |-> "starting"]]

(***************************************************************************)
(* Results (the JSON values and error strings the operations return)       *)
(***************************************************************************)
NoResult == [ok |-> FALSE, kind |-> "none"]

\* Err(message)
Err(kind, tried) == [ok |-> FALSE, kind |-> kind, tried |-> tried]

\* Ok(json!({...})) of start_braindrive
StartOk(kind, success, already, partial, bport, fport) ==
    [ok |-> TRUE, kind |-> kind, success |-> success,
     already_running |-> already, partial |-> partial,
     backend_port |-> bport, frontend_port |-> fport]

(***************************************************************************)
(* Call frames                                                             *)
(***************************************************************************)
Idle ==
    [op |-> "none", pc |-> "idle",
     frontend_port |-> NoPort, backend_port |-> NoPort,
     current_state |-> new_process_state,
     backend_already_running |-> FALSE, frontend_already_running |-> FALSE,
     actual_backend_port |-> NoPort, actual_frontend_port |-> NoPort,
     backend_pid |-> NoPid, frontend_pid |-> NoPid,
     res |-> NoResult,
     \* history of the call, read only by the properties
     probedB |-> FALSE, probedF |-> FALSE,  \* record running and its port probed live
     selB |-> FALSE, selF |-> FALSE,        \* find_available_port ran for the slot
     busyB |-> {}, busyF |-> {},            \* ports in use when it ran
     spawnedB |-> NoPid, spawnedF |-> NoPid,\* pid spawned in this call
     spawnPortB |-> NoPort, spawnPortF |-> NoPort,
     liveB |-> FALSE, liveF |-> FALSE,      \* the slot's port was observed live
     killed |-> {},                         \* pids kill_process was called on
     portKills |-> {},                      \* ports kill_process_on_port was called on
     \* locals of stop_braindrive
     stopped_backend |-> FALSE, stopped_frontend |-> FALSE,
     backend_freed |-> FALSE, frontend_freed |-> FALSE,
     log |-> <<>>,                          \* kills and waits of stop, in order
     \* restart_braindrive: the call is a restart, the ports it was given
     restart |-> FALSE, rfp |-> NoPort, rbp |-> NoPort,
     stop_result |-> NoResult,
     \* history of a restart: its entry point, the ports its caller supplied
     \* (NoPort: none), the ports recorded when it was called (NoPort: no
     \* record), whether stop ran to its end before start was called
     via |-> "none", givenF |-> NoPort, givenB |-> NoPort,
     recF |-> NoPort, recB |-> NoPort, stop_done |-> FALSE,
     \* kill_process: its argument; history: SIGTERM was delivered, the
     \* process was found running after the grace period, SIGKILL was sent
     pid |-> NoPid,
     termed |-> FALSE, alive_after_grace |-> FALSE, forced |-> FALSE,
     \* redact_secrets: the line and the secret in it, the string the
     \* patterns have rewritten so far, the index of the next pattern
     input |-> [kind |-> "none", line |-> <<>>, secret |-> <<>>],
     result |-> <<>>, pattern |-> 0,
     \* wait_for_port and wait_for_port_free: the port, the timeout and the
     \* time since start (in sleeps of 250 ms); history: the probes made
     port |-> NoPort, timeout |-> 0, elapsed |-> 0, probes |-> <<>>,
     \* history: the ToolResult that send_tool_result built for the result
     answer |-> [type |-> "none", id |-> 0, success |-> FALSE],
     \* download_file_with_progress_once and pull_ollama_model_with_progress:
     \* the content length, the bytes written, the last percent sent, the
     \* line of the last event, lines read so far; history: the Progress
     \* events sent, in order
     total |-> -1, downloaded |-> 0, last_percent |-> 0,
     last_progress_message |-> <<>>, nlines |-> 0, events |-> <<>>,
     \* download_file_with_progress: the build's target, the id its Progress
     \* events carry, the loop counter,
     \* the last error; history: HTTP requests made, calls of curl, Progress
     \* events of the attempt under way
     target_os |-> "none", request_id |-> 0, attempt |-> 0, last_error |-> [kind |-> "none"],
     http_attempts |-> 0, curl_calls |-> 0, nchunk |-> 0,
     \* get_braindrive_status step by step: the caller holds the guard of
     \* the SupervisorState mutex; its locals
     holds |-> FALSE, backend_running |-> FALSE, frontend_running |-> FALSE,
     \* send_message step by step: the message, whether the caller holds the
     \* guard of the sender mutex, the connection whose sink the guard gave
     message |-> [type |-> "none"], holds_sender |-> FALSE, sink |-> 0,
     wrote |-> FALSE]                       \* the call changed SupervisorState

\* the frame of caller c becomes f; wrote records a change of SupervisorState
Step(c, f) ==
    /\ call' = [call EXCEPT ![c] = [f EXCEPT !.wrote = @ \/ (state' # state)]]
    /\ UNCHANGED wsvars

InUseAmong(ports) == {p \in ports : is_port_in_use(p)}

(***************************************************************************)
(* find_available_port (dispatcher.rs 1870-1882); NoPort is None           *)
(***************************************************************************)
find_available_port_skips_preferred(preferred, fallbacks) ==
    LET free == {i \in 1..Len(fallbacks) : ~is_port_in_use(fallbacks[i])}
    IN  IF free = {} THEN NoPort
        ELSE fallbacks[CHOOSE i \in free : \A j \in free : i <= j]

find_available_port_never_fails(preferred, fallbacks) ==
    LET free == {i \in 1..Len(fallbacks) : ~is_port_in_use(fallbacks[i])}
    IN  IF ~is_port_in_use(preferred) THEN preferred
        ELSE IF free = {} THEN preferred
        ELSE fallbacks[CHOOSE i \in free : \A j \in free : i <= j]

find_available_port(preferred, fallbacks) ==
    LET free == {i \in 1..Len(fallbacks) : ~is_port_in_use(fallbacks[i])}
    IN  IF ~is_port_in_use(preferred) THEN preferred
        ELSE IF free = {} THEN NoPort
        ELSE fallbacks[CHOOSE i \in free : \A j \in free : i <= j]

\* the ports named by the "No available ... ports" error: "{preferred}, {list:?}"
Tried(preferred, fallbacks) == <<preferred>> \o fallbacks

(***************************************************************************)
(* start_braindrive (dispatcher.rs 1886-2049)                              *)
(***************************************************************************)
\* 1891-1917: installation checks, then the snapshot under the lock
StartBegin(c, fp, bp, envOk) ==
    /\ call[c].op = "none"
    /\ UNCHANGED <<state, procs, nextPid, foreign>>
    /\ IF ~envOk
       THEN Step(c, [Idle EXCEPT !.op = "start", !.pc = "done",
                                 !.frontend_port = fp, !.backend_port = bp,
                                 !.res = Err("not_installed", <<>>)])
       ELSE Step(c, [Idle EXCEPT !.op = "start", !.pc = "check",
                                 !.frontend_port = fp, !.backend_port = bp,
                                 !.actual_frontend_port = fp,
                                 !.actual_backend_port = bp,
                                 !.current_state = state])

\* history: the record says running and a probe of its port finds it live
ProbedLive(svc) == svc.name # "none" /\ svc.running /\ is_port_in_use(svc.port)

\* 1927-1933 / 1936-1942: the slot is already satisfied
already_running_never(svc) == FALSE

already_running(svc) == IsSome(svc) /\ svc.running /\ is_port_in_use(svc.port)

\* 1919-1955: decide what is already running; both: return at once
StartCheck(c) ==
    LET f == call[c]
        b == already_running(f.current_state.backend)
        fr == already_running(f.current_state.frontend)
        abp == IF b THEN f.current_state.backend.port ELSE f.backend_port
        afp == IF fr THEN f.current_state.frontend.port ELSE f.frontend_port
        g == [f EXCEPT !.backend_already_running = b,
                       !.frontend_already_running = fr,
                       !.actual_backend_port = abp,
                       !.actual_frontend_port = afp,
                       !.backend_pid = IF b THEN f.current_state.backend.pid ELSE NoPid,
                       !.frontend_pid = IF fr THEN f.current_state.frontend.pid ELSE NoPid,
                       !.probedB = ProbedLive(f.current_state.backend),
                       !.probedF = ProbedLive(f.current_state.frontend),
                       !.liveB = ProbedLive(f.current_state.backend),
                       !.liveF = ProbedLive(f.current_state.frontend)]
    IN  /\ f.op = "start" /\ f.pc = "check"
        /\ UNCHANGED <<state, procs, nextPid, foreign>>
        /\ IF b /\ fr
           THEN Step(c, [g EXCEPT !.pc = "done",
                                  !.res = StartOk("already", TRUE, TRUE, FALSE, abp, afp)])
           ELSE Step(c, [g EXCEPT !.pc = IF b THEN "frontend" ELSE "backend"])


\* 1957-1966: select the backend's port and spawn it
StartBackend(c, spawnOk) ==
    LET f == call[c]
        port == find_available_port(f.backend_port, BACKEND_PORTS)
        g == [f EXCEPT !.selB = TRUE,
                       !.busyB = InUseAmong(SeqToSet(Tried(f.backend_port, BACKEND_PORTS)))]
    IN  /\ f.op = "start" /\ f.pc = "backend"
        /\ UNCHANGED <<state, foreign>>
        /\ IF port = NoPort
           THEN /\ UNCHANGED <<procs, nextPid>>
                /\ Step(c, [g EXCEPT !.pc = "done",
                              !.res = Err("no_backend_ports",
                                          Tried(f.backend_port, BACKEND_PORTS))])
           ELSE IF ~spawnOk
           THEN /\ UNCHANGED <<procs, nextPid>>
                /\ Step(c, [g EXCEPT !.pc = "done",
                                     !.actual_backend_port = port,
                                     !.res = Err("backend_spawn_failed", <<>>)])
           ELSE /\ nextPid \in Pids
                /\ procs' = AfterSpawn(procs, nextPid, "backend", port)
                /\ nextPid' = nextPid + 1
                /\ Step(c, [g EXCEPT !.pc = "wait_backend",
                                     !.actual_backend_port = port,
                                     !.backend_pid = nextPid,
                                     !.spawnedB = nextPid,
                                     !.spawnPortB = port])

\* 1969 (true): wait_for_port saw the backend's port live
BackendUp(c) ==
    LET f == call[c]
    IN  /\ f.op = "start" /\ f.pc = "wait_backend"
        /\ is_port_in_use(f.actual_backend_port)
        /\ UNCHANGED <<state, procs, nextPid, foreign>>
        /\ Step(c, [f EXCEPT !.pc = "frontend",
                             !.liveB = @ \/ is_port_in_use(f.actual_backend_port)])

\* 1969-1974: the wait timed out: kill what was spawned and fail
BackendTimeout_goes_on(c) ==
    LET f == call[c]
    IN  /\ f.op = "start" /\ f.pc = "wait_backend"
        /\ ~is_port_in_use(f.actual_backend_port)
        /\ procs' \in KillOutcomes(procs, f.backend_pid)
        /\ UNCHANGED <<state, nextPid, foreign>>
        /\ Step(c, [f EXCEPT !.pc = "frontend",
                             !.killed = @ \cup {f.backend_pid}])

BackendTimeout_no_kill(c) ==
    LET f == call[c]
    IN  /\ f.op = "start" /\ f.pc = "wait_backend"
        /\ ~is_port_in_use(f.actual_backend_port)
        /\ UNCHANGED <<state, procs, nextPid, foreign>>
        /\ Step(c, [f EXCEPT !.pc = "done",
                             !.res = Err("backend_timeout", <<>>)])

BackendTimeout(c) ==
    LET f == call[c]
    IN  /\ f.op = "start" /\ f.pc = "wait_backend"
        /\ ~is_port_in_use(f.actual_backend_port)
        /\ procs' \in KillOutcomes(procs, f.backend_pid)
        /\ UNCHANGED <<state, nextPid, foreign>>
        /\ Step(c, [f EXCEPT !.pc = "done",
                             !.killed = @ \cup {f.backend_pid},
                             !.res = Err("backend_timeout", <<>>)])

\* 1977-1986: select the frontend's port and spawn it (skipped when it runs)
StartFrontend(c, spawnOk) ==
    LET f == call[c]
        port == find_available_port(f.frontend_port, FRONTEND_PORTS)
        g == [f EXCEPT !.selF = TRUE,
                       !.busyF = InUseAmong(SeqToSet(Tried(f.frontend_port, FRONTEND_PORTS)))]
    IN  /\ f.op = "start" /\ f.pc = "frontend"
        /\ UNCHANGED <<state, foreign>>
        /\ IF f.frontend_already_running
           THEN /\ UNCHANGED <<procs, nextPid>>
                /\ Step(c, [f EXCEPT !.pc = "commit"])
           ELSE IF port = NoPort
           THEN /\ UNCHANGED <<procs, nextPid>>
                /\ Step(c, [g EXCEPT !.pc = "done",
                              !.res = Err("no_frontend_ports",
                                          Tried(f.frontend_port, FRONTEND_PORTS))])
           ELSE IF ~spawnOk
           THEN /\ UNCHANGED <<procs, nextPid>>
                /\ Step(c, [g EXCEPT !.pc = "done",
                                     !.actual_frontend_port = port,
                                     !.res = Err("frontend_spawn_failed", <<>>)])
           ELSE /\ nextPid \in Pids
                /\ procs' = AfterSpawn(procs, nextPid, "frontend", port)
                /\ nextPid' = nextPid + 1
                /\ Step(c, [g EXCEPT !.pc = "wait_frontend",
                                     !.actual_frontend_port = port,
                                     !.frontend_pid = nextPid,
                                     !.spawnedF = nextPid,
                                     !.spawnPortF = port])

\* 1990 (true): wait_for_port saw the frontend's port live
FrontendUp_ignores_wait(c) ==
    LET f == call[c]
    IN  /\ f.op = "start" /\ f.pc = "wait_frontend"
        /\ UNCHANGED <<state, procs, nextPid, foreign>>
        /\ Step(c, [f EXCEPT !.pc = "commit",
                             !.liveF = @ \/ is_port_in_use(f.actual_frontend_port)])

FrontendUp(c) ==
    LET f == call[c]
    IN  /\ f.op = "start" /\ f.pc = "wait_frontend"
        /\ is_port_in_use(f.actual_frontend_port)
        /\ UNCHANGED <<state, procs, nextPid, foreign>>
        /\ Step(c, [f EXCEPT !.pc = "commit",
                             !.liveF = @ \/ is_port_in_use(f.actual_frontend_port)])

\* 1990-2005: the wait timed out: kill the frontend, report partial success
FrontendTimeout(c) ==
    LET f == call[c]
    IN  /\ f.op = "start" /\ f.pc = "wait_frontend"
        /\ ~is_port_in_use(f.actual_frontend_port)
        /\ procs' \in KillOutcomes(procs, f.frontend_pid)
        /\ UNCHANGED <<state, nextPid, foreign>>
        /\ Step(c, [f EXCEPT !.pc = "done",
                             !.killed = @ \cup {f.frontend_pid},
                             !.res = StartOk("partial", FALSE, FALSE, TRUE,
                                             f.actual_backend_port, NoPort)])

\* 2008-2048: write both records under the lock and return success
StartCommit(c) ==
    LET f == call[c]
    IN  /\ f.op = "start" /\ f.pc = "commit"
        /\ state' = [backend |-> ServiceInfo("backend", f.backend_pid,
                                             f.actual_backend_port, TRUE),
                     frontend |-> ServiceInfo("frontend", f.frontend_pid,
                                              f.actual_frontend_port, TRUE)]
        /\ UNCHANGED <<procs, nextPid, foreign>>
        /\ Step(c, [f EXCEPT !.pc = "done",
                             !.res = StartOk("started", TRUE, FALSE, FALSE,
                                             f.actual_backend_port,
                                             f.actual_frontend_port)])

(***************************************************************************)
(* stop_braindrive (dispatcher.rs 2226-2301)                               *)
(***************************************************************************)
\* pid of a program the supervisor did not spawn
ForeignPid == 0 - 1

\* find_pid_on_port (process_manager.rs 72-90): the listener's pid, NoPid if none
find_pid_on_port(port) ==
    IF \E p \in Pids : procs[p].st = "listening" /\ procs[p].port = port
    THEN CHOOSE p \in Pids : procs[p].st = "listening" /\ procs[p].port = port
    ELSE IF port \in foreign THEN ForeignPid
    ELSE NoPid

kill_process_on_port_false_if_free(port, foreignOk) ==
    LET pid == find_pid_on_port(port)
    IN  IF pid = NoPid THEN FALSE
        ELSE IF pid = ForeignPid THEN foreignOk
        ELSE kill_process(pid)

\* kill_process_on_port (process_manager.rs 163-170): its return value;
\* foreignOk is whether kill -TERM of a foreign listener is permitted
kill_process_on_port(port, foreignOk) ==
    LET pid == find_pid_on_port(port)
    IN  IF pid = NoPid THEN TRUE
        ELSE IF pid = ForeignPid THEN foreignOk
        ELSE kill_process(pid)

\* the process table and the foreign ports after kill_process_on_port(port)
ProcsAfterPortKill(pr, port) == AfterKill(pr, find_pid_on_port(port))

ForeignAfterPortKill(fo, port, foreignOk) ==
    IF find_pid_on_port(port) = ForeignPid /\ foreignOk THEN fo \ {port} ELSE fo

\* 2232-2236: the snapshot under the lock
StopBegin(c) ==
    /\ call[c].op = "none"
    /\ UNCHANGED <<state, procs, nextPid, foreign>>
    /\ Step(c, [Idle EXCEPT !.op = "stop", !.pc = "kill_backend",
                            !.backend_port = default_backend_port,
                            !.frontend_port = default_frontend_port,
                            !.current_state = state])

\* what stop_braindrive did, in the order it did it (history)
KillByPid(slot, ok) == [ev |-> "kill_pid", slot |-> slot, ok |-> ok]
KillByPort(slot, ok) == [ev |-> "kill_port", slot |-> slot, ok |-> ok]
WaitFree(slot, ok) == [ev |-> "wait_free", slot |-> slot, ok |-> ok]

\* 2238-2256 (backend) and 2258-2273 (frontend): kill by pid, else by port
StopKill_port_always(c, slot, foreignOk) ==
    LET f == call[c]
        svc == f.current_state[slot]
        port == IF IsSome(svc) THEN svc.port
                ELSE IF slot = "backend" THEN f.backend_port ELSE f.frontend_port
        byPid == IsSome(svc) /\ svc.pid # NoPid
        pidKilled == byPid /\ kill_process(svc.pid)
        byPort == kill_process_on_port(port, foreignOk)
        g == [f EXCEPT !.killed = IF byPid THEN @ \cup {svc.pid} ELSE @,
                       !.portKills = @ \cup {port},
                       !.log = @ \o (IF byPid THEN <<KillByPid(slot, pidKilled)>>
                                               ELSE <<>>)
                                 \o <<KillByPort(slot, byPort)>>]
    IN  /\ f.op = "stop"
        /\ f.pc = IF slot = "backend" THEN "kill_backend" ELSE "kill_frontend"
        /\ procs' \in IF pidKilled THEN KillOutcomes(procs, svc.pid)
                       ELSE {ProcsAfterPortKill(procs, port), procs}
        /\ foreign' \in IF pidKilled THEN {foreign}
                         ELSE {ForeignAfterPortKill(foreign, port, foreignOk), foreign}
        /\ UNCHANGED <<state, nextPid>>
        /\ IF slot = "backend"
           THEN Step(c, [g EXCEPT !.pc = "kill_frontend",
                                  !.backend_port = port,
                                  !.stopped_backend = pidKilled \/ byPort])
           ELSE Step(c, [g EXCEPT !.pc = "free_backend",
                                  !.frontend_port = port,
                                  !.stopped_frontend = pidKilled \/ byPort])

StopKill_skips_unrecorded(c, slot, foreignOk) ==
    LET f == call[c]
        svc == f.current_state[slot]
        port == IF IsSome(svc) THEN svc.port
                ELSE IF slot = "backend" THEN f.backend_port ELSE f.frontend_port
        byPid == IsSome(svc) /\ svc.pid # NoPid
        pidKilled == byPid /\ kill_process(svc.pid)
        byPort == IsSome(svc) /\ ~pidKilled
        stopped == IF pidKilled THEN TRUE
                   ELSE IF byPort THEN kill_process_on_port(port, foreignOk)
                   ELSE FALSE
        g == [f EXCEPT !.killed = IF byPid THEN @ \cup {svc.pid} ELSE @,
                       !.portKills = IF byPort THEN @ \cup {port} ELSE @,
                       !.log = @ \o (IF byPid THEN <<KillByPid(slot, pidKilled)>>
                                               ELSE <<>>)
                                 \o (IF byPort THEN <<KillByPort(slot, stopped)>>
                                      ELSE <<>>)]
    IN  /\ f.op = "stop"
        /\ f.pc = IF slot = "backend" THEN "kill_backend" ELSE "kill_frontend"
        /\ procs' \in IF pidKilled THEN KillOutcomes(procs, svc.pid)
                       ELSE IF byPort THEN {ProcsAfterPortKill(procs, port), procs}
                       ELSE {procs}
        /\ foreign' \in IF byPort
                         THEN {ForeignAfterPortKill(foreign, port, foreignOk), foreign}
                         ELSE {foreign}
        /\ UNCHANGED <<state, nextPid>>
        /\ IF slot = "backend"
           THEN Step(c, [g EXCEPT !.pc = "kill_frontend",
                                  !.backend_port = port,
                                  !.stopped_backend = stopped])
           ELSE Step(c, [g EXCEPT !.pc = "free_backend",
                                  !.frontend_port = port,
                                  !.stopped_frontend = stopped])

StopKill(c, slot, foreignOk) ==
    LET f == call[c]
        svc == f.current_state[slot]
        port == IF IsSome(svc) THEN svc.port
                ELSE IF slot = "backend" THEN f.backend_port ELSE f.frontend_port
        byPid == IsSome(svc) /\ svc.pid # NoPid
        pidKilled == byPid /\ kill_process(svc.pid)
        stopped == IF pidKilled THEN TRUE ELSE kill_process_on_port(port, foreignOk)
        g == [f EXCEPT !.killed = IF byPid THEN @ \cup {svc.pid} ELSE @,
                       !.portKills = IF pidKilled THEN @ ELSE @ \cup {port},
                       !.log = @ \o (IF byPid THEN <<KillByPid(slot, pidKilled)>>
                                               ELSE <<>>)
                                 \o (IF pidKilled THEN <<>>
                                      ELSE <<KillByPort(slot, stopped)>>)]
    IN  /\ f.op = "stop"
        /\ f.pc = IF slot = "backend" THEN "kill_backend" ELSE "kill_frontend"
        /\ procs' \in IF pidKilled THEN KillOutcomes(procs, svc.pid)
                       ELSE {ProcsAfterPortKill(procs, port), procs}
        /\ foreign' \in IF pidKilled THEN {foreign}
                         ELSE {ForeignAfterPortKill(foreign, port, foreignOk), foreign}
        /\ UNCHANGED <<state, nextPid>>
        /\ IF slot = "backend"
           THEN Step(c, [g EXCEPT !.pc = "kill_frontend",
                                  !.backend_port = port,
                                  !.stopped_backend = stopped])
           ELSE Step(c, [g EXCEPT !.pc = "free_backend",
                                  !.frontend_port = port,
                                  !.stopped_frontend = stopped])

\* wait_for_port_free (process_manager.rs 212-223): true when a probe made
\* before the timeout saw the port free
wait_for_port_free(port) == ~is_port_in_use(port)

\* 2276-2277: wait for each port to be freed
StopWaitFree(c, slot) ==
    LET f == call[c]
    IN  /\ f.op = "stop"
        /\ f.pc = IF slot = "backend" THEN "free_backend" ELSE "free_frontend"
        /\ UNCHANGED <<state, procs, nextPid, foreign>>
        /\ IF slot = "backend"
           THEN Step(c, [f EXCEPT !.pc = "free_frontend",
                                  !.backend_freed = wait_for_port_free(f.backend_port),
                                  !.log = Append(@, WaitFree(slot,
                                             wait_for_port_free(f.backend_port)))])
           ELSE Step(c, [f EXCEPT !.pc = "commit",
                                  !.frontend_freed = wait_for_port_free(f.frontend_port),
                                  !.log = Append(@, WaitFree(slot,
                                             wait_for_port_free(f.frontend_port)))])

\* 2283-2284 / 2287-2288: the record of a stopped slot
Stopped_keeps_pid(svc) ==
    IF IsSome(svc) THEN [svc EXCEPT !.running = FALSE] ELSE svc

Stopped_forgets_port(svc) ==
    IF IsSome(svc) THEN [svc EXCEPT !.running = FALSE, !.pid = NoPid,
                                    !.port = NoPort]
    ELSE svc

Stopped(svc) ==
    IF IsSome(svc) THEN [svc EXCEPT !.running = FALSE, !.pid = NoPid] ELSE svc

\* 2279-2300: reset the records under the lock, compute success, return
StopCommit_needs_kill(c) ==
    LET f == call[c]
        success == f.stopped_backend /\ f.stopped_frontend
    IN  /\ f.op = "stop" /\ f.pc = "commit"
        /\ state' = [backend |-> Stopped(state.backend),
                     frontend |-> Stopped(state.frontend)]
        /\ UNCHANGED <<procs, nextPid, foreign>>
        /\ Step(c, [f EXCEPT !.pc = IF f.restart THEN "pause" ELSE "done",
              !.res = [ok |-> TRUE, kind |-> "stopped", success |-> success,
                       backend_stopped |-> f.stopped_backend \/ f.backend_freed,
                       frontend_stopped |-> f.stopped_frontend \/ f.frontend_freed]])

StopCommit(c) ==
    LET f == call[c]
        success == /\ (f.stopped_backend \/ ~is_port_in_use(f.backend_port))
                   /\ (f.stopped_frontend \/ ~is_port_in_use(f.frontend_port))
    IN  /\ f.op = "stop" /\ f.pc = "commit"
        /\ state' = [backend |-> Stopped(state.backend),
                     frontend |-> Stopped(state.frontend)]
        /\ UNCHANGED <<procs, nextPid, foreign>>
        /\ Step(c, [f EXCEPT !.pc = IF f.restart THEN "pause" ELSE "done",
              !.res = [ok |-> TRUE, kind |-> "stopped", success |-> success,
                       backend_stopped |-> f.stopped_backend \/ f.backend_freed,
                       frontend_stopped |-> f.stopped_frontend \/ f.frontend_freed]])

(***************************************************************************)
(* restart_braindrive (dispatcher.rs 2304-2324) and its two entry points   *)
(***************************************************************************)
\* the <<frontend_port, backend_port>> options the GUI command is given in
\* the scenarios explored (NoPort: None)
RestartArgs == {<<NoPort, NoPort>>, <<5180, 8010>>}

\* 2310: restart_braindrive(fp, bp) enters stop_braindrive (2226-2236)
RestartEnter(c, via, gf, gb, fp, bp) ==
    /\ call[c].op = "none"
    /\ UNCHANGED <<state, procs, nextPid, foreign>>
    /\ Step(c, [Idle EXCEPT !.op = "stop", !.pc = "kill_backend",
                            !.backend_port = default_backend_port,
                            !.frontend_port = default_frontend_port,
                            !.current_state = state,
                            !.restart = TRUE, !.rfp = fp, !.rbp = bp,
                            !.via = via, !.givenF = gf, !.givenB = gb,
                            !.recF = IF IsSome(state.frontend)
                                     THEN state.frontend.port ELSE NoPort,
                            !.recB = IF IsSome(state.backend)
                                     THEN state.backend.port ELSE NoPort])

\* websocket.rs 364-375: the restart_braindrive command carries no ports;
\* the handler takes them from the records, else the defaults
RestartFromChannel(c) ==
    RestartEnter(c, "ws", NoPort, NoPort,
                 IF IsSome(state.frontend) THEN state.frontend.port ELSE 5173,
                 IF IsSome(state.backend) THEN state.backend.port ELSE 8005)

\* lib.rs 139-148: the GUI command takes optional ports, else the defaults
RestartCommand(c, gf, gb) ==
    RestartEnter(c, "gui", gf, gb,
                 IF gf # NoPort THEN gf ELSE 5173,
                 IF gb # NoPort THEN gb ELSE 8005)

\* history: stop ran to its end in this call (a kill attempt and a wait for
\* each slot, the records reset, a result)
StopCompleted(f) ==
    /\ \A slot \in {"backend", "frontend"} :
          /\ \E i \in 1..Len(f.log) :
                f.log[i].slot = slot /\ f.log[i].ev \in {"kill_pid", "kill_port"}
          /\ \E i \in 1..Len(f.log) :
                f.log[i].slot = slot /\ f.log[i].ev = "wait_free"
    /\ ~state.backend.running /\ ~state.frontend.running
    /\ f.res.ok /\ f.res.kind = "stopped"

\* 2313-2316: after the pause, start_braindrive(fp, bp) (1891-1917)
RestartStart(c, envOk) ==
    LET f == call[c]
        h == [Idle EXCEPT !.op = "start",
                          !.frontend_port = f.rfp, !.backend_port = f.rbp,
                          !.restart = TRUE, !.rfp = f.rfp, !.rbp = f.rbp,
                          !.stop_result = f.res,
                          !.via = f.via, !.givenF = f.givenF, !.givenB = f.givenB,
                          !.recF = f.recF, !.recB = f.recB,
                          !.stop_done = StopCompleted(f)]
    IN  /\ f.op = "stop" /\ f.pc = "pause" /\ f.restart
        /\ UNCHANGED <<state, procs, nextPid, foreign>>
        /\ IF ~envOk
           THEN Step(c, [h EXCEPT !.pc = "done",
                                  !.res = Err("not_installed", <<>>)])
           ELSE Step(c, [h EXCEPT !.pc = "check",
                                  !.actual_frontend_port = f.rfp,
                                  !.actual_backend_port = f.rbp,
                                  !.current_state = state])

\* 2316-2323: an Err of start is passed on; otherwise both results are
\* wrapped in a result with success = true
RestartReturn(c) ==
    LET f == call[c]
    IN  /\ f.op = "start" /\ f.pc = "done" /\ f.restart
        /\ UNCHANGED <<state, procs, nextPid, foreign>>
        /\ Step(c, [f EXCEPT !.op = "restart", !.restart = FALSE,
              !.res = IF f.res.ok
                      THEN [ok |-> TRUE, kind |-> "restarted", success |-> TRUE,
                            stop_result |-> f.stop_result,
                            start_result |-> f.res]
                      ELSE f.res])

(***************************************************************************)
(* kill_process, unix (process_manager.rs 121-147), step by step           *)
(***************************************************************************)
\* is_pid_running (process_manager.rs 41-51): kill -0 succeeds
is_pid_running(pid) == IsAlive(pid)

\* a caller (stop_braindrive, start_braindrive, kill_process_on_port) calls
\* kill_process(pid)
KillBegin(c, pid) ==
    /\ call[c].op = "none"
    /\ UNCHANGED <<state, procs, nextPid, foreign>>
    /\ Step(c, [Idle EXCEPT !.op = "kill", !.pc = "term", !.pid = pid])

\* 125-131, 144-146: kill -TERM; if it fails, return false.  heeds: the
\* process terminates on SIGTERM
KillTerm(c, heeds) ==
    LET f == call[c]
    IN  /\ f.op = "kill" /\ f.pc = "term"
        /\ UNCHANGED <<state, nextPid, foreign>>
        /\ IF kill_process(f.pid)
           THEN /\ procs' = IF heeds THEN AfterKill(procs, f.pid) ELSE procs
                /\ Step(c, [f EXCEPT !.pc = "grace", !.termed = TRUE])
           ELSE /\ UNCHANGED procs
                /\ Step(c, [f EXCEPT !.pc = "done",
                                     !.res = [ok |-> TRUE, kind |-> "kill",
                                              value |-> FALSE]])

\* 133-143: after the 500 ms sleep, SIGKILL if is_pid_running, then return
\* true.  killOk: the SIGKILL takes effect before kill_process returns (its
\* status is dropped with "let _ =" and the pid is not probed again)
KillCheck(c, killOk) ==
    LET f == call[c]
        running == is_pid_running(f.pid)
    IN  /\ f.op = "kill" /\ f.pc = "grace"
        /\ procs' = IF running /\ killOk THEN AfterKill(procs, f.pid) ELSE procs
        /\ UNCHANGED <<state, nextPid, foreign>>
        /\ Step(c, [f EXCEPT !.pc = "done",
                             !.alive_after_grace = running,
                             !.forced = running,
                             !.res = [ok |-> TRUE, kind |-> "kill",
                                      value |-> TRUE]])

\* spawn_detached (process_manager.rs 227-282): a service process exists
ServiceSpawned(slot) ==
    /\ nextPid \in Pids
    /\ procs' = AfterSpawn(procs, nextPid, slot,
                           IF slot = "backend" THEN 8005 ELSE 5173)
    /\ nextPid' = nextPid + 1
    /\ UNCHANGED <<state, call, foreign>>
    /\ UNCHANGED wsvars

(***************************************************************************)
(* get_braindrive_status (dispatcher.rs 2327-2350)                         *)
(***************************************************************************)
status_running_from_cache(svc, port) == svc.running

\* 2334-2335: the running value reported for a slot
status_running(svc, port) == is_port_in_use(port)

get_braindrive_status_overall_any(c) ==
    LET backend_port == IF IsSome(state.backend) THEN state.backend.port
                        ELSE default_backend_port
        frontend_port == IF IsSome(state.frontend) THEN state.frontend.port
                         ELSE default_frontend_port
        backend_running == status_running(state.backend, backend_port)
        frontend_running == status_running(state.frontend, frontend_port)
    IN  /\ call[c].op = "none"
        /\ UNCHANGED <<state, procs, nextPid, foreign>>
        /\ Step(c, [Idle EXCEPT !.op = "status", !.pc = "done",
              !.res = [ok |-> TRUE, kind |-> "status",
                       backend |-> [port |-> backend_port,
                                    running |-> backend_running,
                                    pid |-> state.backend.pid],
                       frontend |-> [port |-> frontend_port,
                                     running |-> frontend_running,
                                     pid |-> state.frontend.pid],
                       overall_running |-> backend_running \/ frontend_running]])

get_braindrive_status_refreshes(c) ==
    LET backend_port == IF IsSome(state.backend) THEN state.backend.port
                        ELSE default_backend_port
        frontend_port == IF IsSome(state.frontend) THEN state.frontend.port
                         ELSE default_frontend_port
        backend_running == status_running(state.backend, backend_port)
        frontend_running == status_running(state.frontend, frontend_port)
    IN  /\ call[c].op = "none"
        /\ state' = [backend |-> IF IsSome(state.backend)
                                 THEN [state.backend EXCEPT !.running = backend_running]
                                 ELSE state.backend,
                     frontend |-> IF IsSome(state.frontend)
                                  THEN [state.frontend EXCEPT !.running = frontend_running]
                                  ELSE state.frontend]
        /\ UNCHANGED <<procs, nextPid, foreign>>
        /\ Step(c, [Idle EXCEPT !.op = "status", !.pc = "done",
              !.res = [ok |-> TRUE, kind |-> "status",
                       backend |-> [port |-> backend_port,
                                    running |-> backend_running,
                                    pid |-> state.backend.pid],
                       frontend |-> [port |-> frontend_port,
                                     running |-> frontend_running,
                                     pid |-> state.frontend.pid],
                       overall_running |-> backend_running /\ frontend_running]])

get_braindrive_status(c) ==
    LET backend_port == IF IsSome(state.backend) THEN state.backend.port
                        ELSE default_backend_port
        frontend_port == IF IsSome(state.frontend) THEN state.frontend.port
                         ELSE default_frontend_port
        backend_running == status_running(state.backend, backend_port)
        frontend_running == status_running(state.frontend, frontend_port)
    IN  /\ call[c].op = "none"
        /\ UNCHANGED <<state, procs, nextPid, foreign>>
        /\ Step(c, [Idle EXCEPT !.op = "status", !.pc = "done",
              !.res = [ok |-> TRUE, kind |-> "status",
                       backend |-> [port |-> backend_port,
                                    running |-> backend_running,
                                    pid |-> state.backend.pid],
                       frontend |-> [port |-> frontend_port,
                                     running |-> frontend_running,
                                     pid |-> state.frontend.pid],
                       overall_running |-> backend_running /\ frontend_running]])

\* check_port (dispatcher.rs 111-119): available when a listener can be
\* bound to the port, that is when nothing listens on it
check_port(c, port) ==
    /\ call[c].op = "none"
    /\ UNCHANGED <<state, procs, nextPid, foreign>>
    /\ Step(c, [Idle EXCEPT !.op = "check_port", !.pc = "done",
              !.res = [ok |-> TRUE, kind |-> "check_port", port |-> port,
                       available |-> ~is_port_in_use(port)]])

\* get_braindrive_status step by step, with the mutex: the guard taken at
\* 2328 lives to the end of the function
LockFree == \A c \in Callers : ~call[c].holds

\* 2328-2332: lock, read the ports
StatusLock(c) ==
    /\ call[c].op = "none" /\ LockFree
    /\ UNCHANGED <<state, procs, nextPid, foreign>>
    /\ Step(c, [Idle EXCEPT !.op = "status", !.pc = "probe_backend",
              !.holds = TRUE,
              !.backend_port = IF IsSome(state.backend) THEN state.backend.port
                               ELSE default_backend_port,
              !.frontend_port = IF IsSome(state.frontend) THEN state.frontend.port
                                ELSE default_frontend_port])

\* 2334: is_port_in_use(backend_port)
StatusProbeBackend(c) ==
    LET f == call[c]
    IN  /\ f.op = "status" /\ f.pc = "probe_backend"
        /\ UNCHANGED <<state, procs, nextPid, foreign>>
        /\ Step(c, [f EXCEPT !.pc = "probe_frontend",
                  !.backend_running = status_running(state.backend, f.backend_port)])

\* 2335-2350: is_port_in_use(frontend_port), the result; the guard is dropped
StatusProbeFrontend(c) ==
    LET f == call[c]
        frontend_running == status_running(state.frontend, f.frontend_port)
    IN  /\ f.op = "status" /\ f.pc = "probe_frontend"
        /\ UNCHANGED <<state, procs, nextPid, foreign>>
        /\ Step(c, [f EXCEPT !.pc = "done", !.holds = FALSE,
              !.frontend_running = frontend_running,
              !.res = [ok |-> TRUE, kind |-> "status",
                       backend |-> [port |-> f.backend_port,
                                    running |-> f.backend_running,
                                    pid |-> state.backend.pid],
                       frontend |-> [port |-> f.frontend_port,
                                     running |-> frontend_running,
                                     pid |-> state.frontend.pid],
                       overall_running |-> f.backend_running /\ frontend_running]])

\* the operation's result has been handed to its caller
Return(c) ==
    /\ call[c].pc = "done" /\ ~call[c].restart
    /\ call' = [call EXCEPT ![c] = Idle]
    /\ UNCHANGED <<state, procs, nextPid, foreign>>
    /\ UNCHANGED wsvars

(***************************************************************************)
(* Environment: the operating system                                       *)
(***************************************************************************)
\* a spawned service starts listening on the port it was given
ProcBinds(p) ==
    /\ procs[p].st = "starting"
    /\ ~is_port_in_use(procs[p].port)
    /\ procs' = [procs EXCEPT ![p].st = "listening"]
    /\ UNCHANGED <<state, call, nextPid, foreign>>
    /\ UNCHANGED wsvars

\* a spawned process exits by itself (crash, bind failure, killed by hand)
ProcDies(p) ==
    /\ IsAlive(p)
    /\ procs' = [procs EXCEPT ![p] = Dead]
    /\ UNCHANGED <<state, call, nextPid, foreign>>
    /\ UNCHANGED wsvars

\* other programs start or stop listening: the ports they hold become F
\* (a port can be taken only if nothing listens on it)
ForeignChanges(F) ==
    /\ F # foreign
    /\ \A port \in F \ foreign : ~is_port_in_use(port)
    /\ foreign' = F
    /\ UNCHANGED <<state, call, procs, nextPid>>
    /\ UNCHANGED wsvars

Env ==
    \/ \E p \in Pids : ProcBinds(p)
    \/ \E p \in Pids : ProcDies(p)
    \/ \E F \in ForeignSets : ForeignChanges(F)

(***************************************************************************)
(* Remote command dispatch (websocket.rs)                                  *)
(***************************************************************************)
Conns == 1..MaxConn
CmdIds == 1..MaxCmd

\* Option::None of the installed sender
NoConn == 0

\* link: "none" (not opened), "up", "close_pending" (the controller's Close
\*       frame is waiting to be read), "down" (transport error)
\* pc:   position of connect() and then of the read loop it spawns
\* cur:  id of the command the read loop is handling, 0 if none
\* last: history: what the last text frame the loop read decoded to
NoConnection == [link |-> "none", pc |-> "none", cur |-> 0, last |-> "none"]

\* st: "unseen", "handling", "returned" (the handler returned), "answered"
\*     (send_tool_result ran); nprog: Progress events the handler emitted;
\* result: what the handler returned; sendable: whether a sender was
\*     installed and its link writable when send_tool_result ran;
\* prev: history: what the frame read before the command decoded to
NoCmd == [type |-> "none", st |-> "unseen", nprog |-> 0, result |-> "none",
          sendable |-> FALSE, prev |-> "none"]

\* IncomingMessage: the command variants (each carries an id) ...
CommandTypes ==
    {"detect_system", "install_conda_env", "install_ollama", "start_ollama",
     "pull_ollama_model", "check_port", "clone_repo", "create_conda_env",
     "install_backend_deps", "install_frontend_deps", "setup_env_file",
     "start_braindrive", "stop_braindrive", "restart_braindrive"}

\* ... and the two variants that carry none
SilentTypes == {"status_update", "unknown"}

\* the command types whose handler is given the sender to emit Progress
ProgressTypes == {"pull_ollama_model"}

\* the tags serde recognizes (the rename attributes, 16-104)
KnownTags == CommandTypes \cup {"status_update"}

\* the text frames the controller sends in the scenarios explored: json says
\* whether the text is a JSON object with a string "type", tag is that
\* string, fields whether the fields the variant requires are there with
\* the right types
Frames ==
    {[json |-> TRUE,  tag |-> "pull_ollama_model", fields |-> TRUE],
     [json |-> TRUE,  tag |-> "start_braindrive",  fields |-> TRUE],
     [json |-> TRUE,  tag |-> "start_braindrive",  fields |-> FALSE],
     [json |-> TRUE,  tag |-> "status_update",     fields |-> TRUE],
     [json |-> TRUE,  tag |-> "shutdown",          fields |-> FALSE],
     [json |-> FALSE, tag |-> "",                  fields |-> FALSE]}

\* serde_json::from_str::<IncomingMessage> (208, 12-109): the variant's
\* name, or "error"; a tag that is not recognized selects the variant
\* marked #[serde(other)]
Decode(frame) ==
    IF ~frame.json THEN "error"
    ELSE IF frame.tag \notin KnownTags THEN "unknown"
    ELSE IF ~frame.fields THEN "error"
    ELSE frame.tag

Progress(id) == [type |-> "progress", id |-> id]
ToolResult(id, success) == [type |-> "tool_result", id |-> id, success |-> success]
BootstrapperConnect == [type |-> "bootstrapper_connect", id |-> 0]

\* send_message (websocket.rs 149-162): Ok exactly when a sender is installed
\* and the write on its connection succeeds
send_message_ok == ws_sender # NoConn /\ conn[ws_sender].link # "down"

\* the channel after send_message(message)
AfterSend(message) ==
    IF send_message_ok
    THEN Append(wire, [message EXCEPT !.id = @] @@ [conn |-> ws_sender])
    ELSE wire

\* 171-177: connect_async; a failure returns Err and changes nothing
ConnectOpen(k, ok) ==
    /\ conn[k].pc = "none"
    /\ \A j \in 1..(k - 1) : conn[j].pc # "none"
    /\ conn' = [conn EXCEPT ![k] = IF ok
                   THEN [NoConnection EXCEPT !.link = "up", !.pc = "store_sender"]
                   ELSE @]
    /\ UNCHANGED <<ws_sender, ws_connected, cmds, wire>>
    /\ UNCHANGED supvars

\* 180-183: store the sender
ConnectStore(k) ==
    /\ conn[k].pc = "store_sender"
    /\ ws_sender' = k
    /\ conn' = [conn EXCEPT ![k].pc = "set_connected"]
    /\ UNCHANGED <<ws_connected, cmds, wire>>
    /\ UNCHANGED supvars

\* 186: mark as connected
ConnectFlag(k) ==
    /\ conn[k].pc = "set_connected"
    /\ ws_connected' = TRUE
    /\ conn' = [conn EXCEPT ![k].pc = "announce"]
    /\ UNCHANGED <<ws_sender, cmds, wire>>
    /\ UNCHANGED supvars

ConnectAnnounce_silent(k) ==
    /\ conn[k].pc = "announce"
    /\ conn' = [conn EXCEPT ![k].pc = IF send_message_ok THEN "read" ELSE "failed"]
    /\ UNCHANGED <<ws_sender, ws_connected, cmds, wire>>
    /\ UNCHANGED supvars

\* 192-237: announce, then spawn the read loop; a failed send returns Err
ConnectAnnounce(k) ==
    /\ conn[k].pc = "announce"
    /\ wire' = AfterSend(BootstrapperConnect)
    /\ conn' = [conn EXCEPT ![k].pc = IF send_message_ok THEN "read" ELSE "failed"]
    /\ UNCHANGED <<ws_sender, ws_connected, cmds>>
    /\ UNCHANGED supvars

\* lib.rs 112-116
disconnect_from_backend ==
    /\ ws_connected
    /\ ws_connected' = FALSE
    /\ UNCHANGED <<ws_sender, conn, cmds, wire>>
    /\ UNCHANGED supvars

NextCmdId ==
    IF \E i \in CmdIds : cmds[i].st = "unseen"
    THEN CHOOSE i \in CmdIds : cmds[i].st = "unseen" /\ \A j \in CmdIds :
                                   cmds[j].st = "unseen" => i <= j
    ELSE 0

\* 201-222: the read loop takes a text frame and decodes it; a command goes
\* to its handler
LoopRead_drop_ends_loop(k, frame) ==
    LET type == Decode(frame)
    IN  /\ conn[k].pc = "read" /\ conn[k].link = "up"
        /\ IF type \in CommandTypes
           THEN /\ NextCmdId # 0
                /\ cmds' = [cmds EXCEPT ![NextCmdId] =
                               [NoCmd EXCEPT !.type = type, !.st = "handling",
                                             !.prev = conn[k].last]]
                /\ conn' = [conn EXCEPT ![k].pc = "handle", ![k].cur = NextCmdId,
                                        ![k].last = type]
           ELSE /\ conn' = [conn EXCEPT ![k].last = type,
                                        ![k].pc = IF type = "error"
                                                  THEN "cleanup_connected" ELSE @]
                /\ UNCHANGED cmds
        /\ UNCHANGED <<ws_sender, ws_connected, wire>>
        /\ UNCHANGED supvars

LoopRead_answers_unknown(k, frame) ==
    LET type == Decode(frame)
    IN  /\ conn[k].pc = "read" /\ conn[k].link = "up"
        /\ IF type \in CommandTypes
           THEN /\ NextCmdId # 0
                /\ cmds' = [cmds EXCEPT ![NextCmdId] =
                               [NoCmd EXCEPT !.type = type, !.st = "handling",
                                             !.prev = conn[k].last]]
                /\ conn' = [conn EXCEPT ![k].pc = "handle", ![k].cur = NextCmdId,
                                        ![k].last = type]
                /\ UNCHANGED wire
           ELSE /\ conn' = [conn EXCEPT ![k].last = type]
                /\ wire' = IF type = "unknown"
                           THEN AfterSend(ToolResult(0, FALSE)) ELSE wire
                /\ UNCHANGED cmds
        /\ UNCHANGED <<ws_sender, ws_connected>>
        /\ UNCHANGED supvars

LoopRead(k, frame) ==
    LET type == Decode(frame)
    IN  /\ conn[k].pc = "read" /\ conn[k].link = "up"
        /\ IF type \in CommandTypes
           THEN /\ NextCmdId # 0
                /\ cmds' = [cmds EXCEPT ![NextCmdId] =
                               [NoCmd EXCEPT !.type = type, !.st = "handling",
                                             !.prev = conn[k].last]]
                /\ conn' = [conn EXCEPT ![k].pc = "handle", ![k].cur = NextCmdId,
                                        ![k].last = type]
           ELSE \* 218-220 a decoding error is logged; 377-383 status_update
                \* and unknown are ignored
                /\ conn' = [conn EXCEPT ![k].last = type]
                /\ UNCHANGED cmds
        /\ UNCHANGED <<ws_sender, ws_connected, wire>>
        /\ UNCHANGED supvars

\* dispatcher.rs 1294-1335: the handler emits a Progress event, best effort
HandlerProgress_detached(k) ==
    \E id \in CmdIds :
        /\ conn[k].pc \in {"read", "handle", "send_result"}
        /\ cmds[id].st # "unseen"
        /\ cmds[id].type \in ProgressTypes
        /\ cmds[id].nprog < MaxProgress
        /\ cmds' = [cmds EXCEPT ![id].nprog = @ + 1]
        /\ wire' = AfterSend(Progress(id))
        /\ UNCHANGED <<ws_sender, ws_connected, conn>>
        /\ UNCHANGED supvars

HandlerProgress(k) ==
    LET id == conn[k].cur
    IN  /\ conn[k].pc = "handle"
        /\ cmds[id].type \in ProgressTypes
        /\ cmds[id].nprog < MaxProgress
        /\ cmds' = [cmds EXCEPT ![id].nprog = @ + 1]
        /\ wire' = AfterSend(Progress(id))
        /\ UNCHANGED <<ws_sender, ws_connected, conn>>
        /\ UNCHANGED supvars

\* 257-375: the handler's operation returns Ok(data) or Err(message)
HandlerReturns(k, result) ==
    LET id == conn[k].cur
    IN  /\ conn[k].pc = "handle"
        /\ cmds' = [cmds EXCEPT ![id].st = "returned", ![id].result = result]
        /\ conn' = [conn EXCEPT ![k].pc = "send_result"]
        /\ UNCHANGED <<ws_sender, ws_connected, wire>>
        /\ UNCHANGED supvars

\* 392-405: the ToolResult built for what the operation returned
tool_result_message(id, result) == ToolResult(id, result.ok)

\* 387-410: send_tool_result; a failed send is logged and the result is lost
send_tool_result_only_ok(k) ==
    LET id == conn[k].cur
        sends == cmds[id].result = "ok"
    IN  /\ conn[k].pc = "send_result"
        /\ wire' = IF sends THEN AfterSend(ToolResult(id, TRUE)) ELSE wire
        /\ cmds' = [cmds EXCEPT ![id].st = "answered",
                                ![id].sendable = send_message_ok]
        /\ conn' = [conn EXCEPT ![k].pc = "read", ![k].cur = 0]
        /\ UNCHANGED <<ws_sender, ws_connected>>
        /\ UNCHANGED supvars

send_tool_result_err_ends_loop(k) ==
    LET id == conn[k].cur
    IN  /\ conn[k].pc = "send_result"
        /\ wire' = AfterSend(ToolResult(id, cmds[id].result = "ok"))
        /\ cmds' = [cmds EXCEPT ![id].st = "answered",
                                ![id].sendable = send_message_ok]
        /\ conn' = [conn EXCEPT ![k].pc = IF cmds[id].result = "ok"
                                          THEN "read" ELSE "cleanup_connected",
                                ![k].cur = 0]
        /\ UNCHANGED <<ws_sender, ws_connected>>
        /\ UNCHANGED supvars

send_tool_result(k) ==
    LET id == conn[k].cur
    IN  /\ conn[k].pc = "send_result"
        /\ wire' = AfterSend(ToolResult(id, cmds[id].result = "ok"))
        /\ cmds' = [cmds EXCEPT ![id].st = "answered",
                                ![id].sendable = send_message_ok]
        /\ conn' = [conn EXCEPT ![k].pc = "read", ![k].cur = 0]
        /\ UNCHANGED <<ws_sender, ws_connected>>
        /\ UNCHANGED supvars

\* 223-231: a Close frame or a read error ends the loop through cleanup
LoopEnds(k) ==
    /\ conn[k].pc = "read" /\ conn[k].link \in {"close_pending", "down"}
    /\ conn' = [conn EXCEPT ![k].pc = "cleanup_connected"]
    /\ UNCHANGED <<ws_sender, ws_connected, cmds, wire>>
    /\ UNCHANGED supvars

\* 245: cleanup_connection clears the flag ...
CleanupFlag(k) ==
    /\ conn[k].pc = "cleanup_connected"
    /\ ws_connected' = FALSE
    /\ conn' = [conn EXCEPT ![k].pc = "cleanup_sender"]
    /\ UNCHANGED <<ws_sender, cmds, wire>>
    /\ UNCHANGED supvars

CleanupSender_keeps_sender(k) ==
    /\ conn[k].pc = "cleanup_sender"
    /\ conn' = [conn EXCEPT ![k].pc = "exited"]
    /\ UNCHANGED <<ws_sender, ws_connected, cmds, wire>>
    /\ UNCHANGED supvars

\* 246: ... and then the sender; the loop exits
CleanupSender(k) ==
    /\ conn[k].pc = "cleanup_sender"
    /\ ws_sender' = NoConn
    /\ conn' = [conn EXCEPT ![k].pc = "exited"]
    /\ UNCHANGED <<ws_connected, cmds, wire>>
    /\ UNCHANGED supvars

\* the controller closes the connection, or the transport fails
LinkChanges(k, to) ==
    /\ conn[k].link = "up"
    /\ conn' = [conn EXCEPT ![k].link = to]
    /\ UNCHANGED <<ws_sender, ws_connected, cmds, wire>>
    /\ UNCHANGED supvars

\* the frames that decode to a command
CommandFrames == {frame \in Frames : Decode(frame) \in CommandTypes}

\* commands over the connections, one after the other
WsNext ==
    \/ \E k \in Conns, ok \in BOOLEAN : ConnectOpen(k, ok)
    \/ \E k \in Conns : ConnectStore(k)
    \/ \E k \in Conns : ConnectFlag(k)
    \/ \E k \in Conns : ConnectAnnounce(k)
    \/ disconnect_from_backend
    \/ \E k \in Conns, frame \in CommandFrames : LoopRead(k, frame)
    \/ \E k \in Conns : HandlerProgress(k)
    \/ \E k \in Conns, result \in {"ok", "err"} : HandlerReturns(k, result)
    \/ \E k \in Conns : send_tool_result(k)
    \/ \E k \in Conns : LoopEnds(k)
    \/ \E k \in Conns : CleanupFlag(k)
    \/ \E k \in Conns : CleanupSender(k)
    \/ \E k \in Conns, to \in {"close_pending", "down"} : LinkChanges(k, to)

(***************************************************************************)
(* send_message (websocket.rs 149-162), step by step: the guard of the      *)
(* sender mutex is held across the write, which puts the frame on the      *)
(* channel piece by piece                                                  *)
(***************************************************************************)
SenderFree == \A c \in Callers : ~call[c].holds_sender

\* the pieces a text frame is written in, in order
Pieces == <<"head", "tail">>

\* the messages sent in the scenarios explored
Messages == {BootstrapperConnect, Progress(1), ToolResult(1, TRUE)}

\* a task calls send_message(sender, message); 150-151: serialized
SendBegin(c, message) ==
    /\ call[c].op = "none"
    /\ call' = [call EXCEPT ![c] =
                   [Idle EXCEPT !.op = "send", !.pc = "lock", !.message = message]]
    /\ UNCHANGED <<state, procs, nextPid, foreign>>
    /\ UNCHANGED wsvars

\* 153-154, 159-161: lock; no sender installed: Err("WebSocket not connected")
SendLock_no_wait(c) ==
    LET f == call[c]
    IN  /\ f.op = "send" /\ f.pc = "lock"
        /\ call' = [call EXCEPT ![c] =
              IF ws_sender = NoConn
              THEN [f EXCEPT !.pc = "done",
                             !.res = [ok |-> FALSE, kind |-> "not_connected"]]
              ELSE [f EXCEPT !.pc = "head", !.holds_sender = TRUE,
                             !.sink = ws_sender]]
        /\ UNCHANGED <<state, procs, nextPid, foreign>>
        /\ UNCHANGED wsvars

SendLock(c) ==
    LET f == call[c]
    IN  /\ f.op = "send" /\ f.pc = "lock"
        /\ SenderFree
        /\ call' = [call EXCEPT ![c] =
              IF ws_sender = NoConn
              THEN [f EXCEPT !.pc = "done",
                             !.res = [ok |-> FALSE, kind |-> "not_connected"]]
              ELSE [f EXCEPT !.pc = "head", !.holds_sender = TRUE,
                             !.sink = ws_sender]]
        /\ UNCHANGED <<state, procs, nextPid, foreign>>
        /\ UNCHANGED wsvars

\* 155-158: ws.send(...).await under the guard: the next piece goes out, or
\* the write fails: Err("Failed to send message"); the guard is dropped when
\* send_message returns
SendPiece(c) ==
    LET f == call[c]
        piece == [f.message EXCEPT !.id = @]
                    @@ [conn |-> f.sink, part |-> f.pc, by |-> c]
    IN  /\ f.op = "send" /\ f.pc \in {"head", "tail"}
        /\ IF conn[f.sink].link = "down"
           THEN /\ UNCHANGED wire
                /\ call' = [call EXCEPT ![c] =
                      [f EXCEPT !.pc = "done", !.holds_sender = FALSE,
                                !.res = [ok |-> FALSE, kind |-> "send_failed"]]]
           ELSE /\ wire' = Append(wire, piece)
                /\ call' = [call EXCEPT ![c] =
                      IF f.pc = "head" THEN [f EXCEPT !.pc = "tail"]
                      ELSE [f EXCEPT !.pc = "done", !.holds_sender = FALSE,
                                     !.res = [ok |-> TRUE, kind |-> "sent"]]]
        /\ UNCHANGED <<state, procs, nextPid, foreign>>
        /\ UNCHANGED <<ws_sender, ws_connected, conn, cmds>>

\* two tasks sending, each one message, while a connection is opened, its
\* sender stored (under the same mutex) and its link may fail
SendNext ==
    \/ \E c \in Callers, message \in Messages : SendBegin(c, message)
    \/ \E c \in Callers : SendLock(c)
    \/ \E c \in Callers : SendPiece(c)
    \/ \E k \in Conns, ok \in BOOLEAN : ConnectOpen(k, ok)
    \/ \E k \in Conns : SenderFree /\ ConnectStore(k)
    \/ \E k \in Conns, to \in {"down"} : LinkChanges(k, to)

\* the connection opened first
FirstConn == CHOOSE k \in Conns : \A j \in Conns : k <= j

\* one connection and its read loop, with every kind of frame
LoopNext ==
    \/ \E ok \in BOOLEAN : ConnectOpen(FirstConn, ok)
    \/ ConnectStore(FirstConn)
    \/ ConnectFlag(FirstConn)
    \/ ConnectAnnounce(FirstConn)
    \/ \E frame \in Frames : LoopRead(FirstConn, frame)
    \/ HandlerProgress(FirstConn)
    \/ \E result \in {"ok", "err"} : HandlerReturns(FirstConn, result)
    \/ send_tool_result(FirstConn)
    \/ LoopEnds(FirstConn)
    \/ CleanupFlag(FirstConn)
    \/ CleanupSender(FirstConn)
    \/ \E to \in {"close_pending", "down"} : LinkChanges(FirstConn, to)

(***************************************************************************)
(* download_file_with_progress (dispatcher.rs 408-513)                     *)
(***************************************************************************)
\* the targets the function is built for: the curl fallback is compiled in
\* for every target except windows (cfg at 469 and 496)
Targets == {"unix", "windows"}

\* the ways one HTTP attempt fails before its body is streamed: the request
\* fails (527-537), the status is not a success (539-547)
RequestErrors == {"request", "status"}

\* Err(e) of attempt n
AttemptError(kind, n) == [kind |-> kind, attempt |-> n]

\* 477-491: "Download failed after {} attempts: {} | curl fallback failed: {}"
CurlFailedError(last_error) ==
    [ok |-> FALSE, kind |-> "download_failed", attempts |-> DOWNLOAD_MAX_RETRIES,
     parts |-> <<last_error, [kind |-> "curl"]>>]

\* 498-504 (windows): "Download failed after {} attempts: {}"
HttpFailedError(last_error) ==
    [ok |-> FALSE, kind |-> "download_failed", attempts |-> DOWNLOAD_MAX_RETRIES,
     parts |-> <<last_error>>]

\* 415-427: build the client; 429-431: enter the loop
DownloadBegin(c, os, request_id, buildOk) ==
    /\ call[c].op = "none"
    /\ call' = [call EXCEPT ![c] =
          IF buildOk
          THEN [Idle EXCEPT !.op = "download", !.pc = "attempt",
                            !.target_os = os, !.request_id = request_id,
                            !.attempt = 1]
          ELSE [Idle EXCEPT !.op = "download", !.pc = "done", !.target_os = os,
                            !.request_id = request_id,
                            !.res = [ok |-> FALSE, kind |-> "client_build"]]]
    /\ UNCHANGED <<state, procs, nextPid, foreign>>
    /\ UNCHANGED wsvars

\* 453-464: an attempt failed: keep its error, remove the file, and go
\* round the loop again (after the delay) or leave it
AfterAttemptError_one_more(f, err) ==
    [f EXCEPT !.last_error = err, !.nchunk = 0,
              !.attempt = @ + 1,
              !.pc = IF f.attempt <= DOWNLOAD_MAX_RETRIES
                     THEN "attempt" ELSE "fallback"]

AfterAttemptError(f, err) ==
    [f EXCEPT !.last_error = err, !.nchunk = 0,
              !.attempt = @ + 1,
              !.pc = IF f.attempt < DOWNLOAD_MAX_RETRIES
                     THEN "attempt" ELSE "fallback"]

\* 432-452 and 527-547: the "Retrying download" event from the second
\* attempt on, then the request; outcome "ok": a response with a success
\* status
DownloadRequest(c, outcome) ==
    LET f == call[c]
        g == [f EXCEPT !.http_attempts = @ + 1]
    IN  /\ f.op = "download" /\ f.pc = "attempt"
        /\ wire' = IF f.attempt > 1 THEN AfterSend(Progress(f.request_id)) ELSE wire
        /\ call' = [call EXCEPT ![c] =
              IF outcome = "ok" THEN [g EXCEPT !.pc = "stream"]
              ELSE AfterAttemptError(g, AttemptError(outcome, f.attempt))]
        /\ UNCHANGED <<state, procs, nextPid, foreign>>
        /\ UNCHANGED <<ws_sender, ws_connected, conn, cmds>>

\* 558-583: a chunk arrives, is written, and a Progress event is sent
DownloadChunk(c) ==
    LET f == call[c]
    IN  /\ f.op = "download" /\ f.pc = "stream"
        /\ f.nchunk < MaxProgress
        /\ wire' = AfterSend(Progress(f.request_id))
        /\ call' = [call EXCEPT ![c] = [f EXCEPT !.nchunk = @ + 1]]
        /\ UNCHANGED <<state, procs, nextPid, foreign>>
        /\ UNCHANGED <<ws_sender, ws_connected, conn, cmds>>

\* 558-563, 585-587: the stream ends, or a chunk or a write fails
DownloadStreamEnd(c, outcome) ==
    LET f == call[c]
    IN  /\ f.op = "download" /\ f.pc = "stream"
        /\ call' = [call EXCEPT ![c] =
              IF outcome = "ok"
              THEN [f EXCEPT !.pc = "done", !.res = [ok |-> TRUE, kind |-> "http"]]
              ELSE AfterAttemptError(f, AttemptError(outcome, f.attempt))]
        /\ UNCHANGED <<state, procs, nextPid, foreign>>
        /\ UNCHANGED wsvars

\* 468-505: out of attempts: curl once, except on windows
DownloadFallback(c, curlOk) ==
    LET f == call[c]
    IN  /\ f.op = "download" /\ f.pc = "fallback"
        /\ IF f.target_os = "windows"
           THEN /\ UNCHANGED wire
                /\ call' = [call EXCEPT ![c] =
                      [f EXCEPT !.pc = "done",
                                !.res = HttpFailedError(f.last_error)]]
           ELSE /\ wire' = AfterSend(Progress(f.request_id))
                /\ call' = [call EXCEPT ![c] =
                      [f EXCEPT !.pc = "done", !.curl_calls = @ + 1,
                                !.res = IF curlOk
                                        THEN [ok |-> TRUE, kind |-> "curl"]
                                        ELSE CurlFailedError(f.last_error)]]
        /\ UNCHANGED <<state, procs, nextPid, foreign>>
        /\ UNCHANGED <<ws_sender, ws_connected, conn, cmds>>

(***************************************************************************)
(* Specification: one supervisor operation at a time                       *)
(***************************************************************************)
Init ==
    /\ state = new_process_state
    /\ call = [c \in Callers |-> Idle]
    /\ procs = [p \in Pids |-> NoProc]
    /\ nextPid = 1
    /\ foreign = {}
    /\ ws_sender = NoConn
    /\ ws_connected = FALSE
    /\ conn = [k \in Conns |-> NoConnection]
    /\ cmds = [i \in CmdIds |-> NoCmd]
    /\ wire = <<>>

Slots == {"backend", "frontend"}

NoneActive == \A c \in Callers : call[c].op = "none"

\* the steps inside an operation that has begun
Continue(c) ==
    \/ StartCheck(c)
    \/ \E spawnOk \in BOOLEAN : StartBackend(c, spawnOk)
    \/ BackendUp(c)
    \/ BackendTimeout(c)
    \/ \E spawnOk \in BOOLEAN : StartFrontend(c, spawnOk)
    \/ FrontendUp(c)
    \/ FrontendTimeout(c)
    \/ StartCommit(c)
    \/ \E slot \in Slots, foreignOk \in BOOLEAN : StopKill(c, slot, foreignOk)
    \/ \E slot \in Slots : StopWaitFree(c, slot)
    \/ StopCommit(c)
    \/ Return(c)

Op(c) ==
    \/ \E a \in StartArgs, envOk \in BOOLEAN :
           NoneActive /\ StartBegin(c, a[1], a[2], envOk)
    \/ NoneActive /\ StopBegin(c)
    \/ NoneActive /\ get_braindrive_status(c)
    \/ Continue(c)

Next == Op("ws") \/ Env

Spec == Init /\ [][Next]_vars

\* the dispatcher alone: connections, read loops and handlers
WsSpec == Init /\ [][WsNext]_vars

LoopSpec == Init /\ [][LoopNext]_vars

SendSpec == Init /\ [][SendNext]_vars

\* restarts only, from the channel and from the GUI
RestartOp(c) ==
    \/ NoneActive /\ RestartFromChannel(c)
    \/ \E a \in RestartArgs : NoneActive /\ RestartCommand(c, a[1], a[2])
    \/ \E envOk \in BOOLEAN : RestartStart(c, envOk)
    \/ RestartReturn(c)
    \/ Continue(c)

RestartNext == RestartOp("ws") \/ Env

\* one download, with or without a channel to report Progress on
DownloadNext ==
    \/ \E os \in Targets, id \in CmdIds, buildOk \in BOOLEAN :
          DownloadBegin("ws", os, id, buildOk)
    \/ \E outcome \in RequestErrors \cup {"ok"} : DownloadRequest("ws", outcome)
    \/ DownloadChunk("ws")
    \/ \E outcome \in {"ok", "chunk", "write"} : DownloadStreamEnd("ws", outcome)
    \/ \E curlOk \in BOOLEAN : DownloadFallback("ws", curlOk)
    \/ \E k \in Conns, ok \in BOOLEAN : ConnectOpen(k, ok)
    \/ \E k \in Conns : ConnectStore(k)
    \/ \E k \in Conns, to \in {"down"} : LinkChanges(k, to)

DownloadSpec == Init /\ [][DownloadNext]_vars

\* a stop from the channel and a status from the GUI, side by side: a step
\* that locks the mutex waits until no one holds it
LockNext ==
    \/ LockFree /\ StopBegin("ws")
    \/ \E slot \in Slots, foreignOk \in BOOLEAN : StopKill("ws", slot, foreignOk)
    \/ \E slot \in Slots : StopWaitFree("ws", slot)
    \/ LockFree /\ StopCommit("ws")
    \/ StatusLock("gui")
    \/ StatusProbeBackend("gui")
    \/ StatusProbeFrontend("gui")
    \/ \E c \in Callers : Return(c)
    \/ \E F \in ForeignSets : ForeignChanges(F)

LockSpec == Init /\ [][LockNext]_vars

\* every operation that is given the SupervisorState or is run by a
\* handler, one at a time, with services that bind their port
AnyOp(c) ==
    \/ RestartOp(c)
    \/ \E a \in StartArgs, envOk \in BOOLEAN :
           NoneActive /\ StartBegin(c, a[1], a[2], envOk)
    \/ NoneActive /\ StopBegin(c)
    \/ NoneActive /\ get_braindrive_status(c)
    \/ \E port \in {default_backend_port, default_frontend_port} :
           NoneActive /\ check_port(c, port)
    \/ \E os \in Targets, id \in CmdIds, buildOk \in BOOLEAN :
           NoneActive /\ DownloadBegin(c, os, id, buildOk)
    \/ \E outcome \in RequestErrors \cup {"ok"} : DownloadRequest(c, outcome)
    \/ DownloadChunk(c)
    \/ \E outcome \in {"ok", "chunk", "write"} : DownloadStreamEnd(c, outcome)
    \/ \E curlOk \in BOOLEAN : DownloadFallback(c, curlOk)

AnyOpNext == AnyOp("ws") \/ \E p \in Pids : ProcBinds(p)

AnyOpSpec == Init /\ [][AnyOpNext]_vars

\* kill_process alone, on processes that come and go
KillNext ==
    \/ \E slot \in Slots : ServiceSpawned(slot)
    \/ \E p \in Pids : ProcBinds(p)
    \/ \E p \in Pids : ProcDies(p)
    \/ \E pid \in Pids : KillBegin("ws", pid)
    \/ \E heeds \in BOOLEAN : KillTerm("ws", heeds)
    \/ \E killOk \in BOOLEAN : KillCheck("ws", killOk)
    \/ Return("ws")

KillSpec == Init /\ [][KillNext]_vars

RestartSpec == Init /\ [][RestartNext]_vars


(***************************************************************************)
(* Properties of start and status                                          *)
(***************************************************************************)
StartDone(c, kind) ==
    call[c].op = "start" /\ call[c].pc = "done" /\ call[c].res.kind = kind

Candidates(preferred, fallbacks) == SeqToSet(Tried(preferred, fallbacks))

\* port is the first candidate outside busy, in the order preferred, fallbacks
IsFirstFree(port, preferred, fallbacks, busy) ==
    /\ port \notin busy
    /\ \/ port = preferred
       \/ /\ preferred \in busy
          /\ \E i \in 1..Len(fallbacks) :
                /\ fallbacks[i] = port
                /\ \A j \in 1..(i - 1) : fallbacks[j] \in busy

\* C1: a start that finds both records running and probes both recorded
\* ports live returns success with already_running = true and the recorded
\* ports, whatever ports the caller passed; it selects no port, spawns and
\* kills nothing and does not write SupervisorState.
C1_IdempotentStart ==
    \A c \in Callers :
        LET f == call[c]
        IN  (f.op = "start" /\ f.probedB /\ f.probedF) =>
                /\ f.pc = "done"
                /\ f.res.ok /\ f.res.success /\ f.res.already_running
                /\ f.res.backend_port = f.current_state.backend.port
                /\ f.res.frontend_port = f.current_state.frontend.port
                /\ ~f.selB /\ ~f.selF
                /\ f.spawnedB = NoPid /\ f.spawnedF = NoPid
                /\ f.killed = {}
                /\ ~f.wrote /\ state = f.current_state

\* C1 witness: an already-running result for a call that passed another
\* backend port than the recorded one
C1_Witness ==
    \E c \in Callers :
        /\ StartDone(c, "already")
        /\ call[c].backend_port # call[c].current_state.backend.port

\* C2 (the claim as stated): after a partial failure whose backend was
\* brought up by this call, the result has success = false and partial =
\* true, the backend slot is recorded as running with the spawned pid and
\* the resolved port, the frontend's pid was killed and the backend's was not.
C2_PartialFailureRecordsBackend ==
    \A c \in Callers :
        LET f == call[c]
        IN  (StartDone(c, "partial") /\ f.spawnedB # NoPid) =>
                /\ f.res.ok /\ ~f.res.success /\ f.res.partial
                /\ state.backend = ServiceInfo("backend", f.spawnedB,
                                               f.spawnPortB, TRUE)
                /\ f.spawnedF \in f.killed
                /\ f.spawnedB \notin f.killed

\* the backend's start was attempted in this call and has failed
BackendFailed(f) ==
    f.op = "start" /\ f.selB /\ ~f.liveB /\ f.pc # "wait_backend"

\* C5: when the backend fails to start (no free port, spawn error, port not
\* up in time) the call is over with an error, and no port was selected and
\* no process spawned for the frontend.
C5_BackendBeforeFrontend ==
    \A c \in Callers :
        LET f == call[c]
        IN  BackendFailed(f) =>
                /\ f.pc = "done" /\ ~f.res.ok
                /\ f.res.kind \in {"no_backend_ports", "backend_spawn_failed",
                                   "backend_timeout"}
                /\ ~f.selF /\ f.spawnedF = NoPid

\* C5 witness: the backend timed out while the frontend's preferred port was free
C5_Witness ==
    \E c \in Callers :
        /\ StartDone(c, "backend_timeout")
        /\ ~is_port_in_use(call[c].frontend_port)

C7_PortExhaustion ==
    \A c \in Callers :
        LET f == call[c]
        IN  /\ Len(Tried(f.backend_port, BACKEND_PORTS)) = 4
            /\ Len(Tried(f.frontend_port, FRONTEND_PORTS)) = 4
            /\ (f.op = "start" /\ f.selB
                  /\ f.busyB = Candidates(f.backend_port, BACKEND_PORTS)) =>
                    /\ f.pc = "done" /\ ~f.res.ok
                    /\ f.res.kind = "no_backend_ports"
                    /\ f.res.tried = <<f.backend_port, BACKEND_PORTS[1],
                                       BACKEND_PORTS[2], BACKEND_PORTS[3]>>
                    /\ f.spawnedB = NoPid /\ f.spawnedF = NoPid
                    /\ ~f.wrote /\ state = f.current_state

\* C7 witness: four distinct backend candidates, all occupied
C7_Witness ==
    \E c \in Callers :
        /\ StartDone(c, "no_backend_ports")
        /\ Cardinality(call[c].busyB) = 4

\* a step in which caller c runs status()
StatusStep(c) == call[c].op = "none" /\ call'[c].op = "status"

\* C8: the running value status() returns for a slot is the result of a live
\* probe of the recorded port: for a record that still says running = true
\* while nothing listens on its port, status() reports running = false.
C8_StaleCacheCorrection ==
    [][\A c \in Callers : StatusStep(c) =>
          /\ IsSome(state.backend) =>
                /\ call'[c].res.backend.port = state.backend.port
                /\ call'[c].res.backend.running = is_port_in_use(state.backend.port)
          /\ IsSome(state.frontend) =>
                /\ call'[c].res.frontend.port = state.frontend.port
                /\ call'[c].res.frontend.running = is_port_in_use(state.frontend.port)
      ]_vars

\* C8 witness: the recorded backend died out of band, its record still says
\* running, and status() reported running = false
C8_Witness ==
    \E c \in Callers :
        /\ call[c].op = "status" /\ call[c].pc = "done"
        /\ IsSome(state.backend) /\ state.backend.running
        /\ state.backend.pid # NoPid /\ ~IsAlive(state.backend.pid)
        /\ ~is_port_in_use(state.backend.port)
        /\ call[c].res.backend.running = FALSE

\* C9: every step that writes a record with running = true is the commit of
\* a start call that has observed that slot's port live (successful wait of
\* the service it spawned, or live probe of an already-running one).
C9_CommitAfterLive ==
    [][/\ (state'.backend # state.backend /\ state'.backend.running) =>
            \E c \in Callers : /\ call[c].op = "start" /\ call[c].pc = "commit"
                               /\ call[c].liveB
                               /\ state'.backend.port = call[c].actual_backend_port
       /\ (state'.frontend # state.frontend /\ state'.frontend.running) =>
            \E c \in Callers : /\ call[c].op = "start" /\ call[c].pc = "commit"
                               /\ call[c].liveF
                               /\ state'.frontend.port = call[c].actual_frontend_port
      ]_vars

\* C9 witness: both records were written for services this call spawned and
\* waited for
C9_Witness ==
    \E c \in Callers :
        /\ StartDone(c, "started")
        /\ call[c].spawnedB # NoPid /\ call[c].spawnedF # NoPid
        /\ call[c].liveB /\ call[c].liveF
        /\ state.backend.running /\ state.frontend.running

\* C10: after the wait for a just-spawned backend timed out, the pid spawned
\* in the call was killed (and nothing else), the result is an error and
\* SupervisorState is as it was before the call.
C10_StartTimeout ==
    \A c \in Callers :
        LET f == call[c]
        IN  StartDone(c, "backend_timeout") =>
                /\ ~f.res.ok
                /\ f.spawnedB # NoPid /\ f.killed = {f.spawnedB}
                /\ ~f.wrote /\ state = f.current_state

\* C10 witness: a call that spawned a backend and timed out waiting for it
C10_Witness ==
    \E c \in Callers :
        /\ StartDone(c, "backend_timeout")
        /\ call[c].spawnedB # NoPid


(***************************************************************************)
(* Properties of stop                                                      *)
(***************************************************************************)
StopDone(c) == call[c].op = "stop" /\ call[c].pc = "done"

\* the port stop works on for a slot: the recorded one, else the default
SlotPort(f, slot) ==
    IF IsSome(f.current_state[slot]) THEN f.current_state[slot].port
    ELSE IF slot = "backend" THEN default_backend_port ELSE default_frontend_port

\* the places in the history of the events ev of a slot
Events(f, ev, slot) ==
    {i \in 1..Len(f.log) : f.log[i].ev = ev /\ f.log[i].slot = slot}

\* a kill of the slot, by pid or by port, reported success
SlotKilled(f, slot) ==
    \E i \in Events(f, "kill_pid", slot) \cup Events(f, "kill_port", slot) :
        f.log[i].ok

\* C11: when stop() has returned, every slot that had a record holds that
\* record with running = false and no pid (same name and port), whether or
\* not a kill succeeded and whether or not the port became free.
C11_StopResetsCache ==
    \A c \in Callers :
        LET f == call[c]
        IN  StopDone(c) =>
                \A slot \in Slots :
                    IsSome(f.current_state[slot]) =>
                        state[slot] = ServiceInfo(f.current_state[slot].name, NoPid,
                                                  f.current_state[slot].port, FALSE)

\* C11 witness: stop returned for a recorded backend that no kill stopped and
\* whose port never became free; its record is reset all the same
C11_Witness ==
    \E c \in Callers :
        LET f == call[c]
        IN  /\ StopDone(c)
            /\ IsSome(f.current_state.backend) /\ f.current_state.backend.running
            /\ f.current_state.backend.pid # NoPid
            /\ ~SlotKilled(f, "backend") /\ ~f.backend_freed
            /\ is_port_in_use(f.current_state.backend.port)
            /\ ~state.backend.running /\ state.backend.pid = NoPid

\* stop is past its kill attempts for the slot
KillStageDone(f, slot) ==
    /\ f.op = "stop"
    /\ f.pc \notin (IF slot = "backend" THEN {"kill_backend"}
                     ELSE {"kill_backend", "kill_frontend"})

\* C13: for a slot with a record, stop attempts the kill by pid exactly when
\* a pid is recorded, and first; it attempts the kill by port if and only if
\* no pid is recorded or the kill by pid failed; every wait for a port to be
\* free comes after every kill attempt.
C13_StopKillOrder ==
    \A c \in Callers :
        LET f == call[c]
        IN  /\ \A slot \in Slots :
                  (KillStageDone(f, slot) /\ IsSome(f.current_state[slot])) =>
                      LET pids == Events(f, "kill_pid", slot)
                          ports == Events(f, "kill_port", slot)
                          hasPid == f.current_state[slot].pid # NoPid
                      IN  /\ Cardinality(pids) = (IF hasPid THEN 1 ELSE 0)
                          /\ Cardinality(ports) <= 1
                          /\ hasPid => f.current_state[slot].pid \in f.killed
                          /\ (ports # {}) <=>
                                 (~hasPid \/ \E i \in pids : ~f.log[i].ok)
                          /\ \A i \in pids : \A j \in ports : i < j
            /\ f.op = "stop" =>
                  \A i \in 1..Len(f.log) : \A j \in 1..Len(f.log) :
                      (f.log[i].ev = "wait_free" /\ f.log[j].ev # "wait_free")
                          => j < i

\* C13 witness: the recorded backend pid was already gone, so the kill by pid
\* failed, the kill by port followed, and the waits came last
C13_Witness ==
    \E c \in Callers :
        LET f == call[c]
        IN  /\ StopDone(c)
            /\ \E i \in Events(f, "kill_pid", "backend") :
                  /\ ~f.log[i].ok
                  /\ \E j \in Events(f, "kill_port", "backend") : i < j
            /\ \E i \in Events(f, "kill_pid", "frontend") : f.log[i].ok
            /\ Events(f, "kill_port", "frontend") = {}
            /\ Events(f, "wait_free", "backend") # {}
            /\ Events(f, "wait_free", "frontend") # {}

\* C14 (the claim as stated): for a slot with no record, stop() makes no
\* kill attempt at all, neither by pid nor by port.
C14_StopOnlyRecordedSlots ==
    \A c \in Callers :
        LET f == call[c]
        IN  \A slot \in Slots :
                (KillStageDone(f, slot) /\ ~IsSome(f.current_state[slot])) =>
                    /\ Events(f, "kill_pid", slot) = {}
                    /\ Events(f, "kill_port", slot) = {}

\* C14 (amended): for a slot with no record, stop() makes no kill by pid and
\* exactly one kill by port, on the slot's default port (8005 for the
\* backend, 5173 for the frontend); stop() kills by pid only recorded pids
\* and by port only the recorded or default port of a slot.
C14_StopUnrecordedByDefaultPort ==
    \A c \in Callers :
        LET f == call[c]
        IN  /\ \A slot \in Slots :
                  (KillStageDone(f, slot) /\ ~IsSome(f.current_state[slot])) =>
                      /\ Events(f, "kill_pid", slot) = {}
                      /\ Cardinality(Events(f, "kill_port", slot)) = 1
                      /\ SlotPort(f, slot) =
                            (IF slot = "backend" THEN 8005 ELSE 5173)
                      /\ SlotPort(f, slot) \in f.portKills
            /\ f.op = "stop" =>
                  /\ f.portKills \subseteq {SlotPort(f, slot) : slot \in Slots}
                  /\ f.killed \subseteq
                        {f.current_state[slot].pid : slot \in Slots} \ {NoPid}

\* C14 witness: stop() on an empty SupervisorState while something listens
\* on the backend's default port: the kill by port was made and succeeded
C14_Witness ==
    \E c \in Callers :
        LET f == call[c]
        IN  /\ f.op = "stop" /\ f.pc = "kill_frontend"
            /\ f.current_state = new_process_state
            /\ \E i \in Events(f, "kill_port", "backend") : f.log[i].ok
            /\ 8005 \in f.portKills
            /\ \E p \in Pids : procs[p] = Dead /\ p \notin f.killed

\* the step in which stop() computes its result
StopCommitStep(c) ==
    call[c].op = "stop" /\ call[c].pc = "commit" /\ call'[c].pc # "commit"

\* C12: the success flag stop() returns is true exactly when, for each of the
\* two slots, a kill by pid or by port reported success or the slot's port
\* is not in use when the result is computed.
C12_StopSuccessFormula ==
    [][\A c \in Callers : StopCommitStep(c) =>
          (call'[c].res.success <=>
              \A slot \in Slots :
                  \/ SlotKilled(call[c], slot)
                  \/ ~is_port_in_use(SlotPort(call[c], slot)))
      ]_vars

\* C12 witness: success = true although no kill of the backend slot
\* succeeded, because its port was free in the end
C12_Witness ==
    \E c \in Callers :
        /\ StopDone(c) /\ call[c].res.success
        /\ ~SlotKilled(call[c], "backend")

\* C12 second case: success = false with one slot killed and the other
\* neither killed nor free
C12_WitnessFalse ==
    \E c \in Callers :
        /\ StopDone(c) /\ ~call[c].res.success
        /\ SlotKilled(call[c], "frontend") /\ ~SlotKilled(call[c], "backend")


(***************************************************************************)
(* Properties of restart                                                   *)
(***************************************************************************)
\* the port the claim gives start for a slot: the supplied one, else the
\* one recorded when restart was called, else the hard default
ClaimedRestartPort(given, rec, default) ==
    IF given # NoPort THEN given
    ELSE IF rec # NoPort THEN rec
    ELSE default

\* C15 (the claim as stated): restart runs stop() to completion and then
\* start(); start is called with the supplied port of a slot when one was
\* given, otherwise with the port last recorded for the slot, and with the
\* hard default (frontend 5173, backend 8005) when there is no record.
C15_RestartSequencing ==
    \A c \in Callers :
        LET f == call[c]
        IN  (f.restart /\ f.op = "start") =>
                /\ f.stop_done /\ f.stop_result.kind = "stopped"
                /\ f.frontend_port = ClaimedRestartPort(f.givenF, f.recF, 5173)
                /\ f.backend_port = ClaimedRestartPort(f.givenB, f.recB, 8005)


(***************************************************************************)
(* Properties of kill_process                                              *)
(***************************************************************************)
KillDone(c) == call[c].op = "kill" /\ call[c].pc = "done"

\* C16 (the claim as stated): kill(pid) returns true only after a graceful
\* termination request; a process still alive after the grace period is
\* force-killed; true is returned only when the pid is gone.
C16_KillEscalation ==
    \A c \in Callers :
        LET f == call[c]
        IN  KillDone(c) =>
                /\ f.res.value => f.termed
                /\ f.alive_after_grace => f.forced
                /\ f.res.value => ~is_pid_running(f.pid)


(***************************************************************************)
(* Properties of the downloader                                            *)
(***************************************************************************)
\* the download is over and failed after its attempts
DownloadFailed(c) ==
    /\ call[c].op = "download" /\ call[c].pc = "done"
    /\ call[c].res.kind = "download_failed"

\* C17 (the claim as stated): a download whose every attempt fails makes
\* exactly 3 HTTP attempts, then calls the external tool exactly once, then
\* fails with an error that holds the last HTTP error and the tool's error.
C17_DownloadRetryBound ==
    \A c \in Callers :
        LET f == call[c]
        IN  DownloadFailed(c) =>
                /\ f.http_attempts = 3
                /\ f.curl_calls = 1
                /\ ~f.res.ok
                /\ f.res.parts = <<f.last_error, [kind |-> "curl"]>>
                /\ f.last_error.attempt = 3

\* C17 (amended): at most 3 HTTP attempts are made and curl is called at
\* most once, only after 3 failed attempts and never on windows.  A failed
\* download made exactly 3 HTTP attempts; built for a target other than
\* windows it then called curl exactly once and its error holds the third
\* attempt's error and curl's; built for windows it called no external tool
\* and its error holds the third attempt's error only.
C17_DownloadRetryBoundByTarget ==
    \A c \in Callers :
        LET f == call[c]
        IN  /\ f.op = "download" =>
                  /\ f.http_attempts <= 3 /\ f.curl_calls <= 1
                  /\ f.curl_calls = 1 =>
                        /\ f.http_attempts = 3 /\ f.target_os # "windows"
                        /\ f.last_error.kind # "none"
            /\ DownloadFailed(c) =>
                  /\ f.http_attempts = 3 /\ ~f.res.ok /\ f.res.attempts = 3
                  /\ f.last_error.attempt = 3
                  /\ f.target_os # "windows" =>
                        /\ f.curl_calls = 1
                        /\ f.res.parts = <<f.last_error, [kind |-> "curl"]>>
                  /\ f.target_os = "windows" =>
                        /\ f.curl_calls = 0
                        /\ f.res.parts = <<f.last_error>>

\* C17 witness: three failed HTTP attempts, the last one while streaming,
\* then a failed curl
C17_Witness ==
    \E c \in Callers :
        /\ DownloadFailed(c)
        /\ call[c].curl_calls = 1 /\ call[c].http_attempts = 3
        /\ call[c].last_error = AttemptError("chunk", 3)


(***************************************************************************)
(* Properties of the dispatcher                                            *)
(***************************************************************************)
\* the places of the ToolResults for id on the channel
ResultsOf(id) ==
    {i \in 1..Len(wire) : wire[i].type = "tool_result" /\ wire[i].id = id}

ProgressOf(id) ==
    {i \in 1..Len(wire) : wire[i].type = "progress" /\ wire[i].id = id}

\* the dispatcher is through with the command: its handler returned and
\* send_tool_result ran
Answered(id) == cmds[id].st = "answered"

\* C3 (the claim as stated): every command that carries an id has exactly
\* one ToolResult with that id on the channel once the dispatcher is through
\* with it, whether the handler succeeded or failed.
C3_ExactlyOneResult ==
    \A id \in CmdIds : Answered(id) => Cardinality(ResultsOf(id)) = 1

\* C3 (amended): a command never has two ToolResults, and none before the
\* dispatcher is through with it; once it is, it has exactly one, whose
\* success field tells whether the handler returned Ok, if a sender was
\* installed and writable when send_tool_result ran, and none otherwise.
\* ToolResults are written for commands only.
C3_OneResultIfSendable ==
    /\ \A id \in CmdIds :
          /\ ~Answered(id) => ResultsOf(id) = {}
          /\ (Answered(id) /\ ~cmds[id].sendable) => ResultsOf(id) = {}
          /\ (Answered(id) /\ cmds[id].sendable) =>
                /\ Cardinality(ResultsOf(id)) = 1
                /\ \A i \in ResultsOf(id) :
                      wire[i].success = (cmds[id].result = "ok")
    /\ \A i \in 1..Len(wire) :
          wire[i].type = "tool_result" =>
              /\ wire[i].id \in CmdIds
              /\ cmds[wire[i].id].type \in CommandTypes

\* C3 witness: a handler that emitted Progress and then failed got its one
\* ToolResult, with success = false
C3_Witness ==
    \E id \in CmdIds :
        /\ Answered(id) /\ cmds[id].result = "err"
        /\ ProgressOf(id) # {}
        /\ \E i \in ResultsOf(id) : ~wire[i].success

\* C4: on the channel every Progress event of an id comes before the
\* ToolResult of that id.
C4_ProgressBeforeResult ==
    \A id \in CmdIds :
        \A i \in ResultsOf(id) : \A j \in ProgressOf(id) : j < i

\* C4 witness: a Progress event followed by the ToolResult of the same id
C4_Witness ==
    \E id \in CmdIds :
        \E i \in ResultsOf(id) : \E j \in ProgressOf(id) : j < i

\* the step of connection k's loop in which send_tool_result runs
SendResultStep(k) == conn[k].pc = "send_result" /\ conn'[k].pc # "send_result"

\* the loop of connection k dropped or ignored a frame after it answered
\* command id, the last command it read
ReadOnAfter(k, id) ==
    /\ Answered(id) /\ conn[k].pc = "read"
    /\ conn[k].last \notin CommandTypes \cup {"none"}
    /\ \A j \in CmdIds : j > id => cmds[j].st = "unseen"

\* C18 (the claim as stated): when a command's handler returns an error, a
\* ToolResult with the command's id and success = false is on the channel
\* once the dispatcher is through with the command.
C18_HandlerErrorBecomesResult ==
    \A id \in CmdIds :
        (Answered(id) /\ cmds[id].result = "err") =>
            \E i \in ResultsOf(id) : ~wire[i].success

\* C18 (amended): when a command's handler returns an error, the dispatcher
\* hands send_message a ToolResult with the command's id and success = false,
\* which is written to the channel if a sender is installed and its
\* connection writable, and lost otherwise; in either case the step leaves
\* the link, the sender, the connected flag and the SupervisorState as they
\* were and takes the loop back to reading the next frame.
C18_HandlerErrorBecomesResultIfSendable ==
    [][\A k \in Conns :
          (SendResultStep(k) /\ cmds[conn[k].cur].result = "err") =>
              /\ wire' = IF ws_sender # NoConn /\ conn[ws_sender].link # "down"
                         THEN Append(wire, [type |-> "tool_result",
                                            id |-> conn[k].cur,
                                            success |-> FALSE,
                                            conn |-> ws_sender])
                         ELSE wire
              /\ cmds'[conn[k].cur].st = "answered"
              /\ conn'[k].pc = "read" /\ conn'[k].link = conn[k].link
              /\ ws_sender' = ws_sender /\ ws_connected' = ws_connected
              /\ state' = state]_vars

\* C18 witness: a handler returned an error, its ToolResult with success =
\* false is on the channel, the link is up, and the loop has read a further
\* frame
C18_Witness ==
    \E k \in Conns, id \in CmdIds :
        /\ cmds[id].result = "err" /\ ReadOnAfter(k, id)
        /\ \E i \in ResultsOf(id) : ~wire[i].success /\ wire[i].conn = k
        /\ conn[k].link = "up" /\ ws_sender = k /\ ws_connected

\* the step in which the loop of connection k reads a frame that decodes to
\* type, the frame before having decoded to something else
ReadStep(k, type) ==
    conn[k].pc = "read" /\ conn[k].last # type /\ conn'[k].last = type

\* a frame that decodes to a command
ValidCommand == CHOOSE frame \in Frames : Decode(frame) = "start_braindrive"

\* C19: a text frame that fails to decode is skipped: the step changes
\* neither the sender, the connected flag, the link, the channel, the
\* commands nor the SupervisorState, and leaves the loop reading; while the
\* link is up the loop then takes a valid command, and a command read right
\* after such a frame gets its ToolResult like any other.
C19_MalformedFramesSurvivable ==
    /\ [][\A k \in Conns :
             ReadStep(k, "error") =>
                 /\ conn' = [conn EXCEPT ![k].last = "error"]
                 /\ UNCHANGED <<ws_sender, ws_connected, cmds, wire, state>>]_vars
    /\ [](\A k \in Conns :
             (conn[k].last = "error" /\ conn[k].link = "up" /\ NextCmdId # 0) =>
                 /\ conn[k].pc = "read"
                 /\ ENABLED LoopRead(k, ValidCommand))
    /\ [](\A id \in CmdIds :
             (cmds[id].prev = "error" /\ Answered(id) /\ cmds[id].sendable) =>
                 Cardinality(ResultsOf(id)) = 1)

\* C19 witness: a command read right after a frame that failed to decode was
\* dispatched and its ToolResult is on the channel of the same connection,
\* which is still installed and flagged connected
C19_Witness ==
    \E k \in Conns, id \in CmdIds :
        /\ cmds[id].prev = "error" /\ Answered(id)
        /\ \E i \in ResultsOf(id) : wire[i].conn = k
        /\ conn[k].pc = "read" /\ conn[k].link = "up"
        /\ ws_sender = k /\ ws_connected

\* C20: a frame whose type tag is not recognized decodes to the unknown
\* variant, never to an error; and a step that reads an unknown or a
\* status_update message sends nothing, answers nothing, and changes neither
\* the SupervisorState nor the connection: the channel holds nothing but the
\* announcements, the Progress events and the ToolResults of commands.
C20_UnknownAndStatusSilent ==
    /\ [](\A frame \in Frames :
             (frame.json /\ frame.tag \notin KnownTags) => Decode(frame) = "unknown")
    /\ [][\A k \in Conns, type \in SilentTypes :
             ReadStep(k, type) =>
                 /\ conn' = [conn EXCEPT ![k].last = type]
                 /\ UNCHANGED <<ws_sender, ws_connected, cmds, wire, state>>]_vars
    /\ [](\A i \in 1..Len(wire) :
             \/ wire[i] = BootstrapperConnect @@ [conn |-> wire[i].conn]
             \/ /\ wire[i].type \in {"progress", "tool_result"}
                /\ wire[i].id \in CmdIds
                /\ cmds[wire[i].id].type \in CommandTypes)

\* C20 witness: the loop has read a message with an unrecognized tag, which
\* decoded to the unknown variant; no command was taken and the channel
\* holds the announcement only
C20_Witness ==
    \E k \in Conns, frame \in Frames :
        /\ frame.tag \notin KnownTags /\ conn[k].last = Decode(frame)
        /\ conn[k].last = "unknown" /\ conn[k].pc = "read"
        /\ wire = <<BootstrapperConnect @@ [conn |-> k]>>
        /\ \A id \in CmdIds : cmds[id] = NoCmd

(***************************************************************************)
(* Properties of connect and of the teardown                               *)
(***************************************************************************)
\* the places of the announcements on the channel
Announcements == {i \in 1..Len(wire) : wire[i].type = "bootstrapper_connect"}

\* connect() returned Ok for connection k: its read loop was spawned
Connected(k) ==
    conn[k].pc \in {"read", "handle", "send_result", "cleanup_connected",
                    "cleanup_sender", "exited"}

\* C21: connect() sends one bootstrapper_connect and spawns the read loop only
\* when that send succeeded: the channel holds exactly one announcement per
\* connect that returned Ok, the loop's first read comes after the step that
\* wrote it, and no Progress or ToolResult is on the channel before the first
\* announcement.
C21_ConnectAnnouncement ==
    /\ [](Cardinality(Announcements) =
              Cardinality({k \in Conns : Connected(k)}))
    /\ [](\A i \in 1..Len(wire) :
              wire[i].type # "bootstrapper_connect" =>
                  \E j \in Announcements : j < i)
    /\ [][/\ \A k \in Conns :
                /\ (~Connected(k) /\ Connected(k)') =>
                      /\ conn[k].pc = "announce" /\ conn'[k].pc = "read"
                      /\ wire' = Append(wire, BootstrapperConnect
                                                @@ [conn |-> ws_sender])
                /\ conn'[k].pc = "handle" => Connected(k)
          /\ Announcements' # Announcements =>
                \E k \in Conns : ~Connected(k) /\ Connected(k)']_vars

\* C21 witness: a connection was announced once, then took a command and
\* answered it
C21_Witness ==
    \E k \in Conns, id \in CmdIds :
        /\ Connected(k) /\ Answered(id)
        /\ Announcements = {1} /\ wire[1].conn = k
        /\ \E i \in ResultsOf(id) : wire[i].conn = k /\ i > 1

\* C22: the read loop leaves its reading only on a Close frame or a read
\* error, and then clears the connected flag, clears the sender and exits;
\* an exited loop never runs again, and the sender is installed and the flag
\* set only by a step of a connect() call.
C22_ConnectionLossTeardown ==
    /\ [][\A k \in Conns :
              /\ (conn[k].pc = "read" /\ conn'[k].pc \notin {"read", "handle"}) =>
                    /\ conn[k].link \in {"close_pending", "down"}
                    /\ conn'[k].pc = "cleanup_connected"
              /\ (conn[k].pc = "cleanup_connected" /\ conn'[k].pc # conn[k].pc) =>
                    /\ ~ws_connected' /\ conn'[k].pc = "cleanup_sender"
              /\ (conn[k].pc = "cleanup_sender" /\ conn'[k].pc # conn[k].pc) =>
                    /\ ws_sender' = NoConn /\ conn'[k].pc = "exited"
              /\ conn[k].pc = "exited" => conn'[k] = conn[k]]_vars
    /\ [][/\ (ws_sender' # ws_sender /\ ws_sender' # NoConn) =>
                 /\ conn[ws_sender'].pc = "store_sender"
                 /\ conn'[ws_sender'].pc = "set_connected"
          /\ (~ws_connected /\ ws_connected') =>
                 \E k \in Conns : /\ conn[k].pc = "set_connected"
                                   /\ conn'[k].pc = "announce"]_vars
    /\ []((\A k \in Conns : conn[k].pc \in {"none", "exited"}) =>
              (ws_sender = NoConn /\ ~ws_connected))

\* C22 witness: a connection that was announced lost its link to a read
\* error; its loop has exited, the sender is cleared and the flag is false
C22_Witness ==
    \E k \in Conns :
        /\ conn[k].pc = "exited" /\ conn[k].link = "down"
        /\ \E i \in Announcements : wire[i].conn = k
        /\ ws_sender = NoConn /\ ~ws_connected

\* C23 (the claim as stated): commands run as tasks of their own, so while
\* the handler of a command is still in progress on a connection whose link
\* is up, the loop of that connection can read the next frame.
C23_NonBlockingDispatch ==
    \A k \in Conns :
        (conn[k].pc = "handle" /\ conn[k].link = "up") =>
            \E frame \in Frames : ENABLED LoopRead(k, frame)

(***************************************************************************)
(* Properties of the SupervisorState mutex                                 *)
(***************************************************************************)
\* the next thing caller c does is slow work: a port probe, a spawn, a kill
\* or a timed wait
AtSlowWork(c) ==
    call[c].pc \in {"probe_backend", "probe_frontend", "check", "backend",
                    "wait_backend", "frontend", "wait_frontend",
                    "kill_backend", "kill_frontend", "free_backend",
                    "free_frontend", "pause"}

\* the next thing caller c does in its operation is lock the mutex
WantsLock(c) == call[c].op \in {"start", "stop"} /\ call[c].pc = "commit"

\* C24 (the claim as stated): the mutex is never held by a caller that is
\* probing a port, spawning, killing or waiting, so no caller that wants
\* the lock finds it held by one doing slow work.
C24_LockDiscipline ==
    \A c \in Callers :
        call[c].holds =>
            /\ ~AtSlowWork(c)
            /\ \A d \in Callers \ {c} : ~WantsLock(d)

(***************************************************************************)
(* Properties of send_message                                              *)
(***************************************************************************)
\* what was written on connection k, in order
OnConn(k) == SelectSeq(wire, LAMBDA m : m.conn = k)

SamePieceOf(m, n) == m.by = n.by /\ m.type = n.type /\ m.id = n.id

\* caller c is in the middle of writing to connection k
MidSend(c, k) ==
    call[c].op = "send" /\ call[c].pc = "tail" /\ call[c].sink = k

\* C25: the sender mutex has one holder at most, and only a holder writes;
\* on every connection the pieces of a message follow each other with no
\* piece of another message in between, and every message is there whole
\* unless its sender is still writing it or the link failed under it; a
\* send that finds no sender installed returns an error and writes nothing.
C25_SerializedWrites ==
    /\ [](Cardinality({c \in Callers : call[c].holds_sender}) <= 1)
    /\ [](\A k \in Conns :
             LET sq == OnConn(k)
             IN  \A i \in 1..Len(sq) :
                     /\ sq[i].part = "tail" =>
                           /\ i > 1 /\ sq[i - 1].part = "head"
                           /\ SamePieceOf(sq[i - 1], sq[i])
                     /\ sq[i].part = "head" =>
                           IF i < Len(sq)
                           THEN /\ sq[i + 1].part = "tail"
                                /\ SamePieceOf(sq[i], sq[i + 1])
                           ELSE \/ MidSend(sq[i].by, k)
                                \/ conn[k].link = "down")
    /\ [](\A c \in Callers :
             (call[c].op = "send" /\ call[c].pc = "done") =>
                 /\ call[c].res.kind = "sent" =>
                       Cardinality({i \in 1..Len(wire) : wire[i].by = c}) = Len(Pieces)
                 /\ call[c].res.kind = "not_connected" =>
                       \A i \in 1..Len(wire) : wire[i].by # c)
    /\ [][\A c \in Callers :
             /\ wire' # wire /\ call'[c] # call[c] => call[c].holds_sender
             /\ (call[c].op = "send" /\ call[c].pc = "lock"
                 /\ call'[c] # call[c] /\ ws_sender = NoConn) =>
                   /\ call'[c].pc = "done" /\ ~call'[c].res.ok
                   /\ ~call'[c].holds_sender /\ wire' = wire]_vars

\* C25 witness: two tasks sent at the same time on the same connection (the
\* second was waiting for the mutex while the first was writing), and both
\* messages are on the channel whole, one after the other
C25_Witness ==
    \E c \in Callers, d \in Callers, k \in Conns :
        /\ c # d
        /\ call[c].res.kind = "sent" /\ call[d].res.kind = "sent"
        /\ call[c].sink = k /\ call[d].sink = k
        /\ Len(wire) = Len(Pieces) + Len(Pieces)
        /\ wire[1].by = c /\ wire[Len(Pieces)].by = c
        /\ wire[Len(wire)].by = d

\* C25 witness of the error: a send found no sender installed
C25_WitnessNoSender ==
    \E c \in Callers :
        call[c].op = "send" /\ call[c].res.kind = "not_connected"

(***************************************************************************)
(* Properties of the SupervisorState as a whole                            *)
(***************************************************************************)
\* the step is the record write of a start (2008-2023) or of a stop
\* (2279-2290) by caller c
CommitStep(c) ==
    /\ call[c].op \in {"start", "stop"} /\ call[c].pc = "commit"
    /\ call'[c].pc # "commit"

\* C26: the SupervisorState is empty at first, and every step that changes
\* it is the record write of a start or of a stop, run by itself or inside a
\* restart; no step of status, check_port, the restart handler or a
\* download changes it.
C26_StateWrittenByStartStop ==
    /\ state = new_process_state
    /\ [][state' # state => \E c \in Callers : CommitStep(c)]_vars
    /\ [](\A c \in Callers :
             call[c].op \in {"status", "check_port", "download"} => ~call[c].wrote)

\* C26 witness: a restart from the channel read the records, ran its stop
\* and its start, and the records hold what its start wrote
C26_Witness ==
    \E c \in Callers :
        /\ call[c].op = "restart" /\ call[c].pc = "done" /\ call[c].res.ok
        /\ call[c].via = "ws"
        /\ IsSome(state.backend) /\ state.backend.running
        /\ IsSome(state.frontend) /\ state.frontend.running

\* C26 witness of the readers: a status, a check_port or a download ended
\* with records in place
C26_WitnessReaders ==
    \E c \in Callers :
        /\ call[c].op \in {"status", "check_port", "download"}
        /\ call[c].pc = "done" /\ IsSome(state.backend)

(***************************************************************************)
(* Properties of status                                                    *)
(***************************************************************************)
\* what the claim has status report for a slot: the recorded port, or the
\* default without a record; whether that port accepts connections; the
\* recorded pid, none without a record
ClaimedStatus(svc, default) ==
    LET port == IF IsSome(svc) THEN svc.port ELSE default
    IN  [port |-> port,
         running |-> is_port_in_use(port),
         pid |-> IF IsSome(svc) THEN svc.pid ELSE NoPid]

\* C27: status returns Ok with, for each slot, the recorded port (8005 /
\* 5173 when the slot has no record), the result of probing that port, and
\* the recorded pid; overall_running is true exactly when both probes were.
C27_StatusShape ==
    [][\A c \in Callers :
          (StatusStep(c) /\ call'[c].pc = "done") =>
              LET res == call'[c].res
              IN  /\ res.ok
                  /\ res.backend = ClaimedStatus(state.backend, 8005)
                  /\ res.frontend = ClaimedStatus(state.frontend, 5173)
                  /\ res.overall_running =
                        (res.backend.running /\ res.frontend.running)]_vars

\* C27 witness: status on records with other ports than the defaults, the
\* backend listening and the frontend gone: one probe true, one false,
\* overall_running false, both pids reported
C27_Witness ==
    \E c \in Callers :
        LET res == call[c].res
        IN  /\ call[c].op = "status" /\ call[c].pc = "done"
            /\ res.backend.port = 8010 /\ res.backend.running
            /\ res.frontend.port = 5180 /\ ~res.frontend.running
            /\ res.backend.pid # NoPid /\ res.frontend.pid # NoPid
            /\ ~res.overall_running

\* C27 witness without records: status probed the default ports
C27_WitnessDefaults ==
    \E c \in Callers :
        LET res == call[c].res
        IN  /\ call[c].op = "status" /\ call[c].pc = "done"
            /\ state = new_process_state
            /\ res.backend.port = 8005 /\ res.backend.running
            /\ res.frontend.port = 5173 /\ res.backend.pid = NoPid


(***************************************************************************)
(* logging.rs: redact_secrets.  A string is a sequence of characters, a    *)
(* character a string of length one.                                       *)
(***************************************************************************)
LowerLetters == <<"a", "b", "c", "d", "e", "f", "g", "h", "i", "j", "k", "l", "m", "n", "o", "p", "q", "r", "s", "t", "u", "v", "w", "x", "y", "z">>
UpperLetters == <<"A", "B", "C", "D", "E", "F", "G", "H", "I", "J", "K", "L", "M", "N", "O", "P", "Q", "R", "S", "T", "U", "V", "W", "X", "Y", "Z">>
Digits == {"0", "1", "2", "3", "4", "5", "6", "7", "8", "9"}
Letters == {LowerLetters[i] : i \in 1..26} \cup {UpperLetters[i] : i \in 1..26}

\* every character other than a letter or a digit that occurs in a line
Punctuation == {"_", "-", ".", "=", ":", "/", "@", "+", "[", "]", "{", "}", ",", "\"", "'", " ", "\n"}
Chars == Letters \cup Digits \cup Punctuation

\* (?i): characters are compared after folding upper case to lower case
to_lower(ch) ==
    IF \E i \in 1..26 : UpperLetters[i] = ch
    THEN LowerLetters[CHOOSE i \in 1..26 : UpperLetters[i] = ch]
    ELSE ch

\* the character classes of the patterns
Alnum == Letters \cup Digits                      \* [a-zA-Z0-9]
KeyChars == Alnum \cup {"_", "-"}                 \* [a-zA-Z0-9_-]
TokenChars == Alnum \cup {"_", ".", "-"}          \* [a-zA-Z0-9_.-]
Whitespace == {" ", "\n"}                         \* \s
Quotes == {"'", "\""}                             \* ['"]
Separators == {"=", ":"} \cup Whitespace          \* [=:\s]
NonSpace == Chars \ Whitespace                    \* [^\s]
NonSpaceNonQuote == Chars \ (Whitespace \cup Quotes)  \* [^\s'"]
NonDash == Chars \ {"-"}                          \* [^-]

Least(S) == CHOOSE x \in S : \A y \in S : x <= y
Greatest(S) == CHOOSE x \in S : \A y \in S : y <= x

\* class* from position i, greedy: how many characters it takes
RunLen(s, i, class) ==
    LET stops == {j \in i..Len(s) : s[j] \notin class}
    IN  IF i < 1 \/ i > Len(s) THEN 0
        ELSE IF stops = {} THEN Len(s) - i + 1
        ELSE Least(stops) - i

\* a literal at position i
LitAt(s, i, lit) ==
    /\ i >= 1 /\ i + Len(lit) - 1 <= Len(s)
    /\ \A j \in 1..Len(lit) : s[i + j - 1] = lit[j]

\* a literal at position i under (?i)
LitAtNoCase(s, i, lit) ==
    /\ i >= 1 /\ i + Len(lit) - 1 <= Len(s)
    /\ \A j \in 1..Len(lit) : to_lower(s[i + j - 1]) = to_lower(lit[j])

\* an alternation of literals (a|b|c) under (?i) at position i: the length
\* of the first alternative found there, 0 when none is
WordAt(s, i, words) ==
    LET hits == {w \in 1..Len(words) : LitAtNoCase(s, i, words[w])}
    IN  IF hits = {} THEN 0 ELSE Len(words[Least(hits)])

\* (api[_-]?key|apikey) under (?i) at position i: its length, 0 when absent
ApiKeyWordAt(s, i) ==
    IF ~LitAtNoCase(s, i, <<"a", "p", "i">>) THEN 0
    ELSE IF i + 3 <= Len(s) /\ s[i + 3] \in {"_", "-"}
            /\ LitAtNoCase(s, i + 4, <<"k", "e", "y">>) THEN 7
    ELSE IF LitAtNoCase(s, i + 3, <<"k", "e", "y">>) THEN 6
    ELSE 0

\* [=:\s]+['"]?(class{min,})['"]? from position k: the position after the
\* match, 0 when there is none.  The separators are greedy and give back
\* characters ('=' and ':' may belong to class) until the rest matches.
AssignedValueEnd(s, k, class, min) ==
    LET seps == RunLen(s, k, Separators)
        ValueStart(j) == IF k + j <= Len(s) /\ s[k + j] \in Quotes
                         THEN k + j + 1 ELSE k + j
        fits == {j \in 1..seps : RunLen(s, ValueStart(j), class) >= min}
    IN  IF fits = {} THEN 0
        ELSE LET v == ValueStart(Greatest(fits))
                 e == v + RunLen(s, v, class)
             IN  IF e <= Len(s) /\ s[e] \in Quotes THEN e + 1 ELSE e

\* a match: the position after it (0: no match at this position) and the
\* length of capture group 1
NoMatch == [end |-> 0, g1 |-> 0]

\* (?i)(api[_-]?key|apikey)[=:\s]+['"]?([a-zA-Z0-9_-]{20,})['"]?
MatchApiKey(s, i) ==
    LET w == ApiKeyWordAt(s, i)
        e == AssignedValueEnd(s, i + w, KeyChars, 20)
    IN  IF w > 0 /\ e > 0 THEN [end |-> e, g1 |-> w] ELSE NoMatch

\* sk-ant-[a-zA-Z0-9_-]{20,}
MatchAnthropicKey(s, i) ==
    LET n == RunLen(s, i + 7, KeyChars)
    IN  IF LitAt(s, i, <<"s", "k", "-", "a", "n", "t", "-">>) /\ n >= 20
        THEN [end |-> i + 7 + n, g1 |-> 0] ELSE NoMatch

\* sk-[a-zA-Z0-9]{20,}
MatchOpenAiKey(s, i) ==
    LET n == RunLen(s, i + 3, Alnum)
    IN  IF LitAt(s, i, <<"s", "k", "-">>) /\ n >= 20
        THEN [end |-> i + 3 + n, g1 |-> 0] ELSE NoMatch

SecretWords == <<<<"s", "e", "c", "r", "e", "t">>, <<"t", "o", "k", "e", "n">>, <<"p", "a", "s", "s", "w", "o", "r", "d">>,
                 <<"p", "a", "s", "s", "w", "d">>, <<"p", "w", "d">>>>

\* (?i)(secret|token|password|passwd|pwd)[=:\s]+['"]?([^\s'"]{8,})['"]?
MatchGenericSecret(s, i) ==
    LET w == WordAt(s, i, SecretWords)
        e == AssignedValueEnd(s, i + w, NonSpaceNonQuote, 8)
    IN  IF w > 0 /\ e > 0 THEN [end |-> e, g1 |-> w] ELSE NoMatch

\* (?i)bearer\s+[a-zA-Z0-9_.-]{20,}
MatchBearer(s, i) ==
    LET ws == RunLen(s, i + 6, Whitespace)
        n == RunLen(s, i + 6 + ws, TokenChars)
    IN  IF LitAtNoCase(s, i, <<"b", "e", "a", "r", "e", "r">>) /\ ws >= 1 /\ n >= 20
        THEN [end |-> i + 6 + ws + n, g1 |-> 0] ELSE NoMatch

\* (?i)authorization[=:\s]+['"]?[^\s'"]{20,}['"]?
MatchAuthorization(s, i) ==
    LET e == AssignedValueEnd(s, i + 13, NonSpaceNonQuote, 20)
    IN  IF LitAtNoCase(s, i, <<"a", "u", "t", "h", "o", "r", "i", "z", "a", "t", "i", "o", "n">>) /\ e > 0
        THEN [end |-> e, g1 |-> 0] ELSE NoMatch

SensitiveNames == <<<<"A", "N", "T", "H", "R", "O", "P", "I", "C", "_", "A", "P", "I", "_", "K", "E", "Y">>,
                    <<"O", "P", "E", "N", "A", "I", "_", "A", "P", "I", "_", "K", "E", "Y">>,
                    <<"D", "A", "T", "A", "B", "A", "S", "E", "_", "U", "R", "L">>,
                    <<"S", "E", "C", "R", "E", "T", "_", "K", "E", "Y">>,
                    <<"P", "R", "I", "V", "A", "T", "E", "_", "K", "E", "Y">>>>

\* (?i)(ANTHROPIC_API_KEY|OPENAI_API_KEY|DATABASE_URL|SECRET_KEY|PRIVATE_KEY)[=][^\s]{8,}
MatchEnvAssignment(s, i) ==
    LET w == WordAt(s, i, SensitiveNames)
        n == RunLen(s, i + w + 1, NonSpace)
    IN  IF w > 0 /\ LitAt(s, i + w, <<"=">>) /\ n >= 8
        THEN [end |-> i + w + 1 + n, g1 |-> w] ELSE NoMatch

Schemes == <<<<"m", "o", "n", "g", "o", "d", "b">>, <<"p", "o", "s", "t", "g", "r", "e", "s">>,
             <<"m", "y", "s", "q", "l">>, <<"r", "e", "d", "i", "s">>>>

\* (?i)(mongodb|postgres|mysql|redis)://[^\s]+@[^\s]+
MatchConnectionString(s, i) ==
    LET w == WordAt(s, i, Schemes)
        k == i + w + 3
        n == RunLen(s, k, NonSpace)
    IN  IF /\ w > 0 /\ LitAt(s, i + w, <<":", "/", "/">>)
           /\ \E p \in (k + 1)..(k + n - 2) : s[p] = "@"
        THEN [end |-> k + n, g1 |-> w] ELSE NoMatch

\* head[^-]*PRIVATE KEY----- from position i, head being -----BEGIN or
\* -----END: the position after it, 0 when absent.  [^-]* stops at the
\* first dash, so PRIVATE KEY is the end of what it ran over.
KeyMarkerEnd(s, i, head) ==
    LET k == i + Len(head)
        n == RunLen(s, k, NonDash)
    IN  IF /\ LitAt(s, i, head) /\ n >= 11
           /\ LitAt(s, k + n - 11, <<"P", "R", "I", "V", "A", "T", "E", " ", "K", "E", "Y">>)
           /\ LitAt(s, k + n, <<"-", "-", "-", "-", "-">>)
        THEN k + n + 5 ELSE 0

\* -----BEGIN[^-]*PRIVATE KEY-----[\s\S]*?-----END[^-]*PRIVATE KEY-----
MatchPrivateKey(s, i) ==
    LET b == KeyMarkerEnd(s, i, <<"-", "-", "-", "-", "-", "B", "E", "G", "I", "N">>)
        ends == {j \in b..Len(s) : KeyMarkerEnd(s, j, <<"-", "-", "-", "-", "-", "E", "N", "D">>) > 0}
    IN  IF b > 0 /\ ends # {}
        THEN [end |-> KeyMarkerEnd(s, Least(ends), <<"-", "-", "-", "-", "-", "E", "N", "D">>), g1 |-> 0]
        ELSE NoMatch

\* SECRET_PATTERNS: the patterns in the order of the vector, and the
\* replacement of each, $1 being capture group 1 of the match at position i
SECRET_PATTERNS ==
    <<"api_key", "anthropic_key", "openai_key", "generic_secret", "bearer",
      "authorization", "env_assignment", "connection_string", "private_key">>

Match(pattern, s, i) ==
    CASE pattern = "api_key" -> MatchApiKey(s, i)
      [] pattern = "anthropic_key" -> MatchAnthropicKey(s, i)
      [] pattern = "openai_key" -> MatchOpenAiKey(s, i)
      [] pattern = "generic_secret" -> MatchGenericSecret(s, i)
      [] pattern = "bearer" -> MatchBearer(s, i)
      [] pattern = "authorization" -> MatchAuthorization(s, i)
      [] pattern = "env_assignment" -> MatchEnvAssignment(s, i)
      [] pattern = "connection_string" -> MatchConnectionString(s, i)
      [] pattern = "private_key" -> MatchPrivateKey(s, i)

Replacement(pattern, s, i) ==
    LET g1 == SubSeq(s, i, i + Match(pattern, s, i).g1 - 1)
    IN  CASE pattern \in {"api_key", "generic_secret", "env_assignment"} ->
               g1 \o <<"=", "[", "R", "E", "D", "A", "C", "T", "E", "D", "]">>
          [] pattern = "anthropic_key" ->
               <<"[", "R", "E", "D", "A", "C", "T", "E", "D", "_", "A", "N", "T", "H", "R", "O", "P", "I", "C", "_", "K", "E", "Y", "]">>
          [] pattern = "openai_key" ->
               <<"[", "R", "E", "D", "A", "C", "T", "E", "D", "_", "O", "P", "E", "N", "A", "I", "_", "K", "E", "Y", "]">>
          [] pattern = "bearer" ->
               <<"B", "e", "a", "r", "e", "r", " ", "[", "R", "E", "D", "A", "C", "T", "E", "D", "]">>
          [] pattern = "authorization" ->
               <<"A", "u", "t", "h", "o", "r", "i", "z", "a", "t", "i", "o", "n", ":", " ", "[", "R", "E", "D", "A", "C", "T", "E", "D", "]">>
          [] pattern = "connection_string" ->
               g1 \o <<":", "/", "/", "[", "R", "E", "D", "A", "C", "T", "E", "D", "]", "@", "[", "R", "E", "D", "A", "C", "T", "E", "D", "]">>
          [] pattern = "private_key" ->
               <<"[", "R", "E", "D", "A", "C", "T", "E", "D", "_", "P", "R", "I", "V", "A", "T", "E", "_", "K", "E", "Y", "]">>

\* Regex::replace_all from position i on: every match, leftmost first and
\* not overlapping, gives way to the replacement
RECURSIVE replace_all(_, _, _)
replace_all(pattern, s, i) ==
    LET starts == {j \in i..Len(s) : Match(pattern, s, j).end > 0}
    IN  IF starts = {} THEN SubSeq(s, i, Len(s))
        ELSE LET m == Least(starts)
             IN  SubSeq(s, i, m - 1) \o Replacement(pattern, s, m)
                    \o replace_all(pattern, s, Match(pattern, s, m).end)

\* redact_secrets(input): the patterns applied one after the other, each to
\* the result of the one before
RECURSIVE redact_from(_, _)
redact_from(n, s) ==
    IF n > Len(SECRET_PATTERNS) THEN s
    ELSE redact_from(n + 1, replace_all(SECRET_PATTERNS[n], s, 1))

redact_secrets(input) == redact_from(1, input)

\* needle is a substring of hay (str::contains)
Contains(hay, needle) ==
    \E i \in 1..(Len(hay) - Len(needle) + 1) : LitAt(hay, i, needle)

(***************************************************************************)
(* Lines given to redact_secrets: a secret of one of four kinds in a line  *)
(***************************************************************************)
Rep(ch, n) == [i \in 1..n |-> ch]

\* what may follow the secret on its line
LineEnds == {<<>>, <<" ", "o", "k">>}

\* Anthropic API keys: sk-ant-api03- and a body; the shortest has the 20
\* characters after sk-ant- the pattern asks for, the other is as long as
\* the key of test_redact_anthropic_key
AnthropicKeys == {<<"s", "k", "-", "a", "n", "t", "-", "a", "p", "i", "0", "3", "-">> \o Rep("x", n) : n \in {14, 25}}

\* what a log line has before such a key
KeyContexts ==
    {<<>>, <<"U", "s", "i", "n", "g", " ", "A", "P", "I", " ", "k", "e", "y", ":", " ">>,
     <<"a", "p", "i", "_", "k", "e", "y", "=">>, <<"x", "-", "a", "p", "i", "-", "k", "e", "y", ":", " ">>,
     <<"t", "o", "k", "e", "n", ":", " ">>,
     <<"A", "u", "t", "h", "o", "r", "i", "z", "a", "t", "i", "o", "n", ":", " ", "B", "e", "a", "r", "e", "r", " ">>,
     <<"A", "N", "T", "H", "R", "O", "P", "I", "C", "_", "A", "P", "I", "_", "K", "E", "Y", "=">>,
     <<"\"", "a", "p", "i", "K", "e", "y", "\"", ":", "\"">>,
     <<"r", "e", "d", "i", "s", ":", "/", "/", "u", ":", "p", "@", "h", " ">>,
     <<"-", "-", "-", "-", "-", "B", "E", "G", "I", "N", " ", "P", "R", "I", "V", "A", "T", "E", " ", "K", "E", "Y", "-", "-", "-", "-", "-", "M", "I", "I", "E", "v", "Q", "-", "-", "-", "-", "-", "E", "N", "D", " ", "P", "R", "I", "V", "A", "T", "E", " ", "K", "E", "Y", "-", "-", "-", "-", "-", " ">>}

\* values of a sensitive environment variable: the one of
\* test_redact_env_var, seven and eight characters, a connection string
EnvValues ==
    {<<"s", "k", "-", "a", "n", "t", "-", "s", "e", "c", "r", "e", "t", "1", "2", "3", "4", "5", "6", "7", "8", "9">>,
     Rep("x", 7), Rep("x", 8),
     <<"p", "o", "s", "t", "g", "r", "e", "s", ":", "/", "/", "u", "s", "e", "r", ":", "p", "w", "@", "h", "o", "s", "t", "/", "d", "b">>}

\* how a password is assigned: key=value, key: value, and the field of a
\* JSON log line ("password":"value")
PasswordForms ==
    {[pre |-> <<"p", "a", "s", "s", "w", "o", "r", "d", "=">>, post |-> <<>>],
     [pre |-> <<"p", "a", "s", "s", "w", "o", "r", "d", ":", " ">>, post |-> <<>>],
     [pre |-> <<"P", "A", "S", "S", "W", "O", "R", "D", "=">>, post |-> <<>>],
     [pre |-> <<"p", "a", "s", "s", "w", "d", "=">>, post |-> <<>>],
     [pre |-> <<"p", "w", "d", ":">>, post |-> <<>>],
     [pre |-> <<"\"", "p", "a", "s", "s", "w", "o", "r", "d", "\"", ":", "\"">>, post |-> <<"\"">>]}

\* passwords: the one of test_redact_password, seven and eight characters
Passwords ==
    {<<"m", "y", "s", "e", "c", "r", "e", "t", "p", "a", "s", "s", "w", "o", "r", "d", "1", "2", "3">>,
     <<"h", "u", "n", "t", "e", "r", "2">>, Rep("x", 8)}

BearerForms ==
    {<<"A", "u", "t", "h", "o", "r", "i", "z", "a", "t", "i", "o", "n", ":", " ", "B", "e", "a", "r", "e", "r", " ">>,
     <<"b", "e", "a", "r", "e", "r", " ">>}

\* bearer tokens: the one of test_redact_bearer_token, 19 and 20
\* characters, and a base64 token with + and / in it
BearerTokens ==
    {<<"e", "y", "J", "h", "b", "G", "c", "i", "O", "i", "J", "I", "U", "z", "I", "1", "N", "i", "I", "s", "I", "n", "R", "5", "c", "C", "I", "6", "I", "k", "p", "X", "V", "C", "J", "9", ".", "x", "x", "x", "x", "x">>,
     Rep("t", 19), Rep("t", 20),
     Rep("a", 22) \o <<"+", "/">> \o Rep("b", 6) \o <<"=">>}

Lines ==
    {[kind |-> "anthropic_key", line |-> pre \o k \o post, secret |-> k] :
        pre \in KeyContexts, k \in AnthropicKeys, post \in LineEnds}
    \cup
    {[kind |-> "env_assignment",
      line |-> SensitiveNames[n] \o <<"=">> \o v \o post, secret |-> v] :
        n \in 1..Len(SensitiveNames), v \in EnvValues, post \in LineEnds}
    \cup
    {[kind |-> "password_assignment",
      line |-> f.pre \o v \o f.post \o post, secret |-> v] :
        f \in PasswordForms, v \in Passwords, post \in LineEnds}
    \cup
    {[kind |-> "bearer_token", line |-> pre \o v \o post, secret |-> v] :
        pre \in BearerForms, v \in BearerTokens, post \in LineEnds}

\* redact_secrets is called on a line
RedactBegin(c, input) ==
    /\ call[c].op = "none"
    /\ UNCHANGED <<state, procs, nextPid, foreign>>
    /\ Step(c, [Idle EXCEPT !.op = "redact", !.pc = "patterns",
                            !.input = input, !.result = input.line,
                            !.pattern = 1])

\* one turn of the loop over the patterns
RedactPattern(c) ==
    /\ call[c].op = "redact" /\ call[c].pc = "patterns"
    /\ UNCHANGED <<state, procs, nextPid, foreign>>
    /\ Step(c, [call[c] EXCEPT
          !.result = replace_all(SECRET_PATTERNS[call[c].pattern], @, 1),
          !.pattern = @ + 1,
          !.pc = IF call[c].pattern = Len(SECRET_PATTERNS)
                 THEN "done" ELSE "patterns"])

RedactNext ==
    \/ \E input \in Lines : RedactBegin("gui", input)
    \/ RedactPattern("gui")

RedactSpec == Init /\ [][RedactNext]_vars

\* redact_secrets has returned to caller c
Redacted(c) == call[c].op = "redact" /\ call[c].pc = "done"

REDACTED == <<"R", "E", "D", "A", "C", "T", "E", "D">>

\* C28: whatever line holding an Anthropic API key, a sensitive environment
\* variable assignment, a password assignment or a bearer token is given to
\* redact_secrets, the result has a REDACTED marker in it and no longer has
\* the secret value in it.
C28_SecretsRedacted ==
    \A c \in Callers :
        Redacted(c) =>
            /\ Contains(call[c].result, REDACTED)
            /\ ~Contains(call[c].result, call[c].input.secret)

\* C28, the part that holds: an Anthropic API key is gone from the result in
\* every context, and a marker is there
C28_AnthropicKeysRedacted ==
    \A c \in Callers :
        (Redacted(c) /\ call[c].input.kind = "anthropic_key") =>
            /\ Contains(call[c].result, REDACTED)
            /\ ~Contains(call[c].result, call[c].input.secret)
            /\ call[c].result = redact_secrets(call[c].input.line)

\* C28: a line that redact_secrets returned as it was, password in it
C28_WitnessUnredacted ==
    \E c \in Callers :
        /\ Redacted(c) /\ call[c].input.kind = "password_assignment"
        /\ call[c].result = call[c].input.line


(***************************************************************************)
(* Progress events: download_file_with_progress_once (dispatcher.rs        *)
(* 514-588) and pull_ollama_model_with_progress (1253-1410)                *)
(***************************************************************************)
\* Option::None of a percent, of a content length
Absent == -1

\* the largest u8
U8_MAX == 255

\* reported totals (content_length) and the lengths of the chunks of a body
Totals == {Absent, 0, 1, 3, 7}
ChunkSizes == {0, 1, 2, 3}

\* lines of the pull tool read in one pull
MaxLines == 2

\* 569: ((downloaded as f64 / total as f64) * 50.0) as u8.  A cast from f64
\* to u8 rounds toward zero and saturates; 0/0 is NaN and casts to 0, x/0
\* for x > 0 is infinite and casts to 255.
download_percent(downloaded, total) ==
    IF total = 0 THEN (IF downloaded = 0 THEN 0 ELSE U8_MAX)
    ELSE IF (downloaded * 50) \div total > U8_MAX THEN U8_MAX
    ELSE (downloaded * 50) \div total

\* 549-557: the response is a success; its content length, the counters
OnceBegin(c, total) ==
    /\ call[c].op = "none"
    /\ UNCHANGED <<state, procs, nextPid, foreign>>
    /\ Step(c, [Idle EXCEPT !.op = "download_once", !.pc = "stream",
                            !.total = total, !.downloaded = 0,
                            !.last_percent = 0])

\* 559-583: a chunk of n bytes arrives and is written; with a known total a
\* Progress event is sent when the percentage has grown.  A body framed by a
\* content length never has more bytes than that length.
OnceChunk(c, n) ==
    LET f == call[c]
        downloaded == f.downloaded + n
        percent == download_percent(downloaded, f.total)
    IN  /\ f.op = "download_once" /\ f.pc = "stream"
        /\ downloaded <= (IF f.total = Absent THEN Greatest(Totals) ELSE f.total)
        /\ UNCHANGED <<state, procs, nextPid, foreign>>
        /\ Step(c, IF f.total # Absent /\ percent > f.last_percent
                   THEN [f EXCEPT !.downloaded = downloaded,
                                  !.last_percent = percent,
                                  !.events = Append(@,
                                      [operation |-> "download",
                                       percent |-> percent,
                                       bytes_downloaded |-> downloaded,
                                       bytes_total |-> f.total])]
                   ELSE [f EXCEPT !.downloaded = downloaded])

\* 559, 585-587: the stream has ended
OnceEnd(c) ==
    /\ call[c].op = "download_once" /\ call[c].pc = "stream"
    /\ UNCHANGED <<state, procs, nextPid, foreign>>
    /\ Step(c, [call[c] EXCEPT !.pc = "done"])

\* str::trim
Trim(s) ==
    LET solid == {i \in 1..Len(s) : s[i] \notin Whitespace}
    IN  IF solid = {} THEN <<>> ELSE SubSeq(s, Least(solid), Greatest(solid))

DigitChars == <<"0", "1", "2", "3", "4", "5", "6", "7", "8", "9">>

\* the number a string of decimal digits denotes
RECURSIVE DecimalValue(_)
DecimalValue(s) ==
    IF s = <<>> THEN 0
    ELSE 10 * DecimalValue(SubSeq(s, 1, Len(s) - 1))
            + ((CHOOSE d \in 1..10 : DigitChars[d] = s[Len(s)]) - 1)

\* 1366-1369: the first match of (\d+)% in the line, its digits parsed as a
\* u8: None when there is no match and when the number does not fit
parse_percent(line) ==
    LET starts == {i \in 1..Len(line) :
                      /\ RunLen(line, i, Digits) > 0
                      /\ LitAt(line, i + RunLen(line, i, Digits), <<"%">>)}
    IN  IF starts = {} THEN Absent
        ELSE LET i == Least(starts)
                 value == DecimalValue(SubSeq(line, i, i + RunLen(line, i, Digits) - 1))
             IN  IF value > U8_MAX THEN Absent ELSE value

\* parse_ollama_progress(line) (1359-1410): None for a blank line, else the
\* percent found in it
parse_ollama_progress(line) ==
    IF Trim(line) = <<>> THEN [some |-> FALSE, percent |-> Absent]
    ELSE [some |-> TRUE, percent |-> parse_percent(Trim(line))]

\* lines the pull tool may print on stderr
PullLines ==
    {<<>>, <<" ", " ">>,
     <<"p", "u", "l", "l", "i", "n", "g", " ", "m", "a", "n", "i", "f", "e", "s", "t">>,
     <<"p", "u", "l", "l", "i", "n", "g", " ", "8", "9", "3", "4", "d", "9", "6", "d", "3", "f", "0", "8", ".", ".", ".", " ", "4", "5", "%", " ", "1", ".", "2", " ", "G", "B", "/", "2", ".", "7", " ", "G", "B">>,
     <<"p", "u", "l", "l", "i", "n", "g", " ", "8", "9", "3", "4", "d", "9", "6", "d", "3", "f", "0", "8", ".", ".", ".", " ", "1", "0", "0", "%">>,
     <<"p", "u", "l", "l", "i", "n", "g", " ", "8", "9", "3", "4", "d", "9", "6", "d", "3", "f", "0", "8", ".", ".", ".", " ", "1", "5", "0", "%">>,
     <<"p", "u", "l", "l", "i", "n", "g", " ", "8", "9", "3", "4", "d", "9", "6", "d", "3", "f", "0", "8", ".", ".", ".", " ", "3", "0", "0", "%">>,
     <<"v", "e", "r", "i", "f", "y", "i", "n", "g", " ", "s", "h", "a", "2", "5", "6", " ", "d", "i", "g", "e", "s", "t">>,
     <<" ", "0", "0", "7", "%", " ">>,
     <<"s", "u", "c", "c", "e", "s", "s">>}

\* 1273-1291: the pull tool is spawned, its stderr is read line by line
PullBegin(c) ==
    /\ call[c].op = "none"
    /\ UNCHANGED <<state, procs, nextPid, foreign>>
    /\ Step(c, [Idle EXCEPT !.op = "pull", !.pc = "lines"])

\* 1294-1312: a line is read; a Progress event is sent for it when it parses
\* and differs from the line of the event before
PullLine(c, line) ==
    LET f == call[c]
        progress == parse_ollama_progress(line)
    IN  /\ f.op = "pull" /\ f.pc = "lines"
        /\ f.nlines < MaxLines
        /\ UNCHANGED <<state, procs, nextPid, foreign>>
        /\ Step(c, IF progress.some /\ line # f.last_progress_message
                   THEN [f EXCEPT !.nlines = @ + 1,
                                  !.last_progress_message = line,
                                  !.events = Append(@,
                                      [operation |-> "pull_ollama_model",
                                       percent |-> progress.percent,
                                       bytes_downloaded |-> Absent,
                                       bytes_total |-> Absent])]
                   ELSE [f EXCEPT !.nlines = @ + 1])

\* 1314-1341: stderr has ended; the exit status gives the final event and
\* the value returned
PullEnd(c, success) ==
    LET f == call[c]
    IN  /\ f.op = "pull" /\ f.pc = "lines"
        /\ UNCHANGED <<state, procs, nextPid, foreign>>
        /\ Step(c, [f EXCEPT !.pc = "done",
                             !.events = Append(@,
                                 [operation |-> "pull_ollama_model",
                                  percent |-> IF success THEN 100 ELSE Absent,
                                  bytes_downloaded |-> Absent,
                                  bytes_total |-> Absent]),
                             \* 1337-1341: Ok with the exit status inside
                             !.res = [ok |-> TRUE, kind |-> "pulled",
                                      success |-> success]])

ProgressNext ==
    \/ \E total \in Totals : OnceBegin("ws", total)
    \/ \E n \in ChunkSizes : OnceChunk("ws", n)
    \/ OnceEnd("ws")
    \/ PullBegin("ws")
    \/ \E line \in PullLines : PullLine("ws", line)
    \/ \E success \in BOOLEAN : PullEnd("ws", success)

ProgressSpec == Init /\ [][ProgressNext]_vars

\* the Progress events caller c has sent in the operation it is running
ProgressEvents(c) == {call[c].events[i] : i \in 1..Len(call[c].events)}

\* C29: every Progress event of a file download and of a model pull has no
\* percent or a percent between 0 and 100, whatever total the server reports
\* (0 included) and whatever percentage the pull tool prints.
C29_PercentRange ==
    \A c \in Callers : \A e \in ProgressEvents(c) :
        e.percent = Absent \/ e.percent \in 0..100

\* C29, the part that holds: the events of a file download have a percent
\* between 1 and 50, and none is sent when the reported total is 0 or absent
C29_DownloadPercentRange ==
    \A c \in Callers : \A e \in ProgressEvents(c) :
        e.operation = "download" =>
            /\ e.percent \in 1..50
            /\ call[c].total \notin {Absent, 0}

\* C29: a pull has sent an event whose percent is above 100
C29_WitnessAbove100 ==
    \E c \in Callers : \E e \in ProgressEvents(c) :
        e.operation = "pull_ollama_model" /\ e.percent > 100


(***************************************************************************)
(* wait_for_port and wait_for_port_free (process_manager.rs 197-223), one  *)
(* turn of the loop at a time.  Time is counted in sleeps of 250 ms.       *)
(***************************************************************************)
WaitKinds == {"wait_for_port", "wait_for_port_free"}

\* the largest timeout_secs a caller passes
MaxTimeout == 1

\* sleeps of 250 ms in a second
SleepsPerSecond == 4

\* the state of the port a probe has to see for the function to return true
WaitDesired_in_use(kind, in_use) == in_use

WaitDesired(kind, in_use) ==
    IF kind = "wait_for_port" THEN in_use ELSE ~in_use

\* 198-199, 213-214: start = Instant::now(), the timeout
WaitBegin(c, kind, port, timeout_secs) ==
    /\ call[c].op = "none"
    /\ UNCHANGED <<state, procs, nextPid, foreign>>
    /\ Step(c, [Idle EXCEPT !.op = kind, !.pc = "check", !.port = port,
                            !.timeout = timeout_secs * SleepsPerSecond,
                            !.elapsed = 0])

\* 201, 216: while start.elapsed() < timeout; 208, 222: false after the loop
WaitCheck(c) ==
    LET f == call[c]
    IN  /\ f.op \in WaitKinds /\ f.pc = "check"
        /\ UNCHANGED <<state, procs, nextPid, foreign>>
        /\ Step(c, IF f.elapsed < f.timeout
                   THEN [f EXCEPT !.pc = "probe"]
                   ELSE [f EXCEPT !.pc = "done",
                                  !.res = [ok |-> TRUE, kind |-> "wait",
                                           value |-> FALSE]])

\* 202-204, 217-219: the probe; true at once when it sees the desired state
WaitProbe(c) ==
    LET f == call[c]
        in_use == is_port_in_use(f.port)
        g == [f EXCEPT !.probes = Append(@, [at |-> f.elapsed,
                                             in_use |-> in_use])]
    IN  /\ f.op \in WaitKinds /\ f.pc = "probe"
        /\ UNCHANGED <<state, procs, nextPid, foreign>>
        /\ Step(c, IF WaitDesired(f.op, in_use)
                   THEN [g EXCEPT !.pc = "done",
                                  !.res = [ok |-> TRUE, kind |-> "wait",
                                           value |-> TRUE]]
                   ELSE [g EXCEPT !.pc = "sleep"])

\* 205, 220: sleep(250 ms); the task may be resumed late
WaitSleep(c, slept) ==
    LET f == call[c]
    IN  /\ f.op \in WaitKinds /\ f.pc = "sleep"
        /\ UNCHANGED <<state, procs, nextPid, foreign>>
        /\ Step(c, [f EXCEPT !.pc = "check", !.elapsed = @ + slept])

\* a step of the function itself
WaitStep(c) ==
    \/ WaitCheck(c)
    \/ WaitProbe(c)
    \/ \E slept \in 1..2 : WaitSleep(c, slept)

WaitNext ==
    \/ \E kind \in WaitKinds, port \in {8005, 5173}, timeout_secs \in 0..MaxTimeout :
          WaitBegin("ws", kind, port, timeout_secs)
    \/ WaitStep("ws")
    \/ \E F \in ForeignSets : ForeignChanges(F)
    \/ Return("ws")

\* the task that runs the function is scheduled again after every await
WaitSpec == Init /\ [][WaitNext]_vars /\ WF_vars(WaitStep("ws"))

Waiting(c) == call[c].op \in WaitKinds /\ call[c].pc # "done"
Waited(c) == call[c].op \in WaitKinds /\ call[c].pc = "done"

\* the probes of caller c's call that saw the port in the desired state
DesiredProbes(c) ==
    {i \in 1..Len(call[c].probes) :
        \/ call[c].op = "wait_for_port" /\ call[c].probes[i].in_use
        \/ call[c].op = "wait_for_port_free" /\ ~call[c].probes[i].in_use}

\* C30: wait_for_port and wait_for_port_free always return, and return a
\* boolean, never an error: true only when a probe made before the timeout
\* elapsed saw the port in the desired state (in use, respectively free),
\* false otherwise, that is when the timeout elapsed with no such probe; and
\* no step of theirs kills anything or touches the supervisor state.
C30_WaitTerminatesWithBoolean ==
    /\ [](\A c \in Callers :
            Waited(c) =>
                /\ call[c].res.ok /\ call[c].res.kind = "wait"
                /\ call[c].res.value \in BOOLEAN
                /\ call[c].res.value = (DesiredProbes(c) # {})
                /\ \A i \in 1..Len(call[c].probes) :
                      call[c].probes[i].at < call[c].timeout
                /\ ~call[c].res.value => call[c].elapsed >= call[c].timeout)
    /\ [][\A c \in Callers :
            WaitStep(c) =>
                /\ procs' = procs /\ foreign' = foreign /\ state' = state
                /\ call'[c].killed = {} /\ call'[c].portKills = {}]_vars
    /\ \A c \in Callers : Waiting(c) ~> Waited(c)

\* C30 witness: wait_for_port_free returned true on its third probe or
\* later, the port having been busy at the probes before
C30_Witness ==
    \E c \in Callers :
        /\ Waited(c) /\ call[c].op = "wait_for_port_free"
        /\ call[c].res.value
        /\ Len(call[c].probes) >= 3
        /\ call[c].probes[1].in_use

\* C30 witness: wait_for_port returned false after the timeout, every probe
\* having found the port closed
C30_WitnessTimeout ==
    \E c \in Callers :
        /\ Waited(c) /\ call[c].op = "wait_for_port"
        /\ ~call[c].res.value /\ call[c].timeout > 0
        /\ Len(call[c].probes) >= 2

\* C30 witness: a timeout of 0 returns false without a probe
C30_WitnessNoProbe ==
    \E c \in Callers :
        Waited(c) /\ call[c].timeout = 0 /\ call[c].probes = <<>>
            /\ ~call[c].res.value

(***************************************************************************)
(* kill_process_on_port as a call of its own (process_manager.rs 163-170)  *)
(***************************************************************************)
\* 164-169: find_pid_on_port(port); with an owner, kill_process(owner) and
\* its value; without one, true.  History kept in the frame: pid is what
\* find_pid_on_port gave, killed the pids kill_process was called on, termed
\* the value kill_process returned.  foreignOk: kill -TERM of a listener the
\* supervisor did not spawn is permitted
PortKill(c, port, foreignOk) ==
    LET pid == find_pid_on_port(port)
        found == pid # NoPid
        kill_value == IF pid = ForeignPid THEN foreignOk ELSE kill_process(pid)
    IN  /\ call[c].op = "none"
        /\ procs' \in IF found THEN KillOutcomes(procs, pid) ELSE {procs}
        /\ foreign' \in IF found
                         THEN {ForeignAfterPortKill(foreign, port, foreignOk),
                               foreign}
                         ELSE {foreign}
        /\ UNCHANGED <<state, nextPid>>
        /\ Step(c, [Idle EXCEPT
              !.op = "kill_on_port", !.pc = "done",
              !.port = port, !.pid = pid,
              !.killed = IF found THEN {pid} ELSE {},
              !.termed = found /\ kill_value,
              !.res = [ok |-> TRUE, kind |-> "kill_on_port",
                       value |-> kill_process_on_port(port, foreignOk)]])

PortKillNext ==
    \/ \E slot \in Slots : ServiceSpawned(slot)
    \/ \E p \in Pids : ProcBinds(p)
    \/ \E p \in Pids : ProcDies(p)
    \/ \E F \in ForeignSets : ForeignChanges(F)
    \/ \E port \in Ports, foreignOk \in BOOLEAN : PortKill("ws", port, foreignOk)
    \/ Return("ws")

PortKillSpec == Init /\ [][PortKillNext]_vars

PortKillStep(c) == call[c].op = "none" /\ call'[c].op = "kill_on_port"

\* C31: kill_process_on_port(port) returns true and kills nothing (no call
\* of kill_process, no process and no port changes) when nothing listens on
\* the port; when an owner is found, kill_process is called on that pid and
\* only on it, and the value returned is the value that call returned.
C31_KillOwnerOfPort ==
    [][\A c \in Callers :
          PortKillStep(c) =>
              LET f == call'[c]
                  owner == IF \E p \in Pids : procs[p].st = "listening"
                                                /\ procs[p].port = f.port
                           THEN CHOOSE p \in Pids : procs[p].st = "listening"
                                                /\ procs[p].port = f.port
                           ELSE IF f.port \in foreign THEN ForeignPid
                           ELSE NoPid
              IN  /\ f.pid = owner
                  /\ owner = NoPid =>
                        /\ f.res.value = TRUE
                        /\ f.killed = {}
                        /\ procs' = procs /\ foreign' = foreign
                  /\ owner # NoPid =>
                        /\ f.killed = {owner}
                        /\ f.res.value = f.termed
                        /\ \A p \in Pids \ {owner} : procs'[p] = procs[p]
                        /\ foreign' # foreign =>
                              owner = ForeignPid /\ f.res.value
                  /\ state' = state]_vars

\* a port nobody listens on: true, nothing killed
C31_Witness ==
    \E c \in Callers :
        /\ call[c].op = "kill_on_port" /\ call[c].pid = NoPid
        /\ call[c].res.value /\ call[c].killed = {}
        /\ \E p \in Pids : procs[p].st = "listening"

\* an owner the supervisor spawned: the value of its kill, true
C31_WitnessOwner ==
    \E c \in Callers :
        /\ call[c].op = "kill_on_port" /\ call[c].pid \in Pids
        /\ call[c].res.value /\ procs[call[c].pid].st = "dead"

\* a foreign owner whose kill is refused: false
C31_WitnessRefused ==
    \E c \in Callers :
        /\ call[c].op = "kill_on_port" /\ call[c].pid = ForeignPid
        /\ ~call[c].res.value /\ call[c].port \in foreign

(***************************************************************************)
(* Sequential series of start, stop and restart in a benign environment    *)
(***************************************************************************)
\* the processes the supervisor spawned for a slot that are alive
LiveOf(slot) == {p \in Pids : procs[p].slot = slot /\ IsAlive(p)}

\* the processes the supervisor spawned for a slot that are listening
ListeningOf(slot) ==
    {p \in Pids : procs[p].slot = slot /\ procs[p].st = "listening"}

\* the operating system hands out again the pids of processes that have
\* exited: the highest pids, all of them exited and named by no record, are
\* free for the next spawns
PidReused(p) ==
    /\ NoneActive
    /\ nextPid \notin Pids
    /\ \A q \in Pids : q >= p =>
          /\ procs[q].st = "dead"
          /\ state.backend.pid # q /\ state.frontend.pid # q
    /\ procs' = [q \in Pids |-> IF q >= p THEN NoProc ELSE procs[q]]
    /\ nextPid' = p
    /\ UNCHANGED <<state, call, foreign>>
    /\ UNCHANGED wsvars

\* every signal takes effect: a process that kill_process was called on,
\* and the listener of a port that kill_process_on_port was called on, is
\* gone when the call returns
SignalsTakeEffect ==
    \A c \in Callers :
        /\ \A p \in Pids :
              p \in call'[c].killed \ call[c].killed => procs'[p].st = "dead"
        /\ \A port \in Ports :
              port \in call'[c].portKills \ call[c].portKills =>
                  \A p \in Pids : ~(procs'[p].st = "listening"
                                     /\ procs'[p].port = port)

\* start, stop and restart, one call after the other, every spawn succeeding
SeqOp(c) ==
    \/ \E a \in StartArgs, envOk \in BOOLEAN :
           NoneActive /\ StartBegin(c, a[1], a[2], envOk)
    \/ NoneActive /\ StopBegin(c)
    \/ NoneActive /\ RestartFromChannel(c)
    \/ \E envOk \in BOOLEAN : RestartStart(c, envOk)
    \/ RestartReturn(c)
    \/ StartCheck(c)
    \/ StartBackend(c, TRUE)
    \/ BackendUp(c)
    \/ BackendTimeout(c) /\ SignalsTakeEffect
    \/ StartFrontend(c, TRUE)
    \/ FrontendUp(c)
    \/ FrontendTimeout(c) /\ SignalsTakeEffect
    \/ StartCommit(c)
    \/ \E slot \in Slots : StopKill(c, slot, TRUE) /\ SignalsTakeEffect
    \/ \E slot \in Slots : StopWaitFree(c, slot)
    \/ StopCommit(c)
    \/ Return(c)

SeqNext ==
    \/ SeqOp("ws")
    \/ \E p \in Pids : ProcBinds(p)
    \/ \E p \in Pids : PidReused(p)

SeqSpec == Init /\ [][SeqNext]_vars

\* C32 (the claim as stated): across a sequential series of start, stop and
\* restart calls the supervisor never has two live processes that it spawned
\* for the same slot.
C32_NoDuplicateService ==
    \A slot \in Slots : Cardinality(LiveOf(slot)) <= 1

\* the case the claim singles out: a start spawns a second backend while
\* the backend of an earlier start is still listening
C32_SecondBackend ==
    \E c \in Callers :
        /\ call[c].op = "start" /\ call[c].spawnedB # NoPid
        /\ \E p \in ListeningOf("backend") : p # call[c].spawnedB
        /\ state.backend = NoService

\* C33 (the claim as stated): whenever stop returns success = true, no
\* process that the supervisor spawned is still listening on its port.
C33_NoOrphanAfterStop ==
    \A c \in Callers :
        StopDone(c) /\ call[c].res.success =>
            \A slot \in Slots : ListeningOf(slot) = {}

\* the case the claim singles out: stop reports success while a backend on a
\* fallback port, on which stop called no kill, is still listening
C33_OrphanOnFallbackPort ==
    \E c \in Callers :
        /\ StopDone(c) /\ call[c].res.success
        /\ \E p \in ListeningOf("backend") :
              /\ procs[p].port = BACKEND_PORTS[2]
              /\ p \notin call[c].killed
              /\ procs[p].port \notin call[c].portKills

(***************************************************************************)
(* Two operations that overlap: one from the channel's read loop           *)
(* (websocket.rs 348-375), one from a GUI command (lib.rs 123-137) or the  *)
(* window's close handler (lib.rs 207-226), on the same SupervisorState    *)
(***************************************************************************)
OtherCaller(c) == CHOOSE d \in Callers : d # c

\* the other task is not in an operation, or is still inside it: an
\* operation begun now overlaps the other task's operation
OtherNotDone(c) == call[OtherCaller(c)].pc # "done"

\* each task runs one start or one stop; nothing orders the two tasks but
\* the SupervisorState mutex, held for the snapshot and for the commit only
\* (dispatcher.rs 1915, 2010, 2234, 2281)
OverlapOp(c) ==
    \/ \E a \in StartArgs : OtherNotDone(c) /\ StartBegin(c, a[1], a[2], TRUE)
    \/ OtherNotDone(c) /\ StopBegin(c)
    \/ StartCheck(c)
    \/ StartBackend(c, TRUE)
    \/ BackendUp(c)
    \/ BackendTimeout(c) /\ SignalsTakeEffect
    \/ StartFrontend(c, TRUE)
    \/ FrontendUp(c)
    \/ FrontendTimeout(c) /\ SignalsTakeEffect
    \/ StartCommit(c)
    \/ \E slot \in Slots : StopKill(c, slot, TRUE) /\ SignalsTakeEffect
    \/ \E slot \in Slots : StopWaitFree(c, slot)
    \/ StopCommit(c)

OverlapNext ==
    \/ \E c \in Callers : OverlapOp(c)
    \/ \E p \in Pids : ProcBinds(p)

OverlapSpec == Init /\ [][OverlapNext]_vars

\* the processes spawned for a slot, whatever became of them
SpawnedFor(slot) == {p \in Pids : procs[p].slot = slot}

BothStart == \A c \in Callers : call[c].op = "start"

\* the record of a slot names the process that listens on the recorded port
RecordNamesListener(svc) ==
    /\ svc.pid \in Pids
    /\ procs[svc.pid].st = "listening"
    /\ procs[svc.pid].port = svc.port

\* C34 (the claim as stated): when two start operations overlap, at most one
\* process is spawned per slot, and the pid committed in each slot's record
\* is the pid of the process listening on the recorded port.
C34_OverlappingStarts ==
    BothStart =>
        \A slot \in Slots :
            /\ Cardinality({c \in Callers :
                   IF slot = "backend" THEN call[c].spawnedB # NoPid
                                       ELSE call[c].spawnedF # NoPid}) <= 1
            /\ IsSome(state[slot]) => RecordNamesListener(state[slot])

\* one task ran a start, the other a stop, and both have returned
StartAndStopDone(s, t) ==
    /\ call[s].op = "start" /\ call[s].pc = "done"
    /\ call[t].op = "stop" /\ call[t].pc = "done"

\* the pid the start spawned for the slot
SpawnedBy(f, slot) == IF slot = "backend" THEN f.spawnedB ELSE f.spawnedF

\* the record says running with the pid of a process that is gone; here only
\* the stop's kills can have ended a process whose start went on to commit
\* (a start that kills what it spawned returns without writing a record)
RunningButKilled(svc) ==
    /\ IsSome(svc) /\ svc.running
    /\ svc.pid \in Pids /\ procs[svc.pid].st = "dead"

\* the record says stopped, pid cleared, while the process the start
\* spawned for the slot is listening
StoppedButListening(svc, pid) ==
    /\ IsSome(svc) /\ ~svc.running /\ svc.pid = NoPid
    /\ pid \in Pids /\ procs[pid].st = "listening"

\* C35 (the claim as stated): after a start and a stop that overlapped have
\* both completed, no record says running = true with the pid of a process
\* the stop killed, and no record says running = false with pid cleared
\* while the process the start spawned is still listening.
C35_OverlappingStartStop ==
    \A s, t \in Callers :
        StartAndStopDone(s, t) =>
            \A slot \in Slots :
                /\ ~RunningButKilled(state[slot])
                /\ ~StoppedButListening(state[slot], SpawnedBy(call[s], slot))

\* the lost update: the stop's commit overwrote the start's
C35_LostUpdate ==
    \E s, t \in Callers :
        /\ StartAndStopDone(s, t)
        /\ \E slot \in Slots :
              StoppedButListening(state[slot], SpawnedBy(call[s], slot))

(***************************************************************************)
(* The ToolResult of an operation (websocket.rs 257-375, 387-410)          *)
(***************************************************************************)
\* the operations whose json carries a "success" field
AnsweredOps == {"start", "stop", "restart", "pull"}

\* the arm of handle_incoming_message passes what the operation returned to
\* send_tool_result, which builds the ToolResult and sends it
AnswerResult(c) ==
    LET f == call[c]
        message == tool_result_message(f.request_id, f.res)
    IN  /\ f.pc = "done" /\ ~f.restart
        /\ f.op \in AnsweredOps
        /\ f.answer.type = "none"
        /\ call' = [call EXCEPT ![c].answer = message]
        /\ wire' = AfterSend(message)
        /\ UNCHANGED <<state, procs, nextPid, foreign>>
        /\ UNCHANGED <<ws_sender, ws_connected, conn, cmds>>

\* one command of the channel and its answer
AnswerNext ==
    \/ \E a \in StartArgs, envOk \in BOOLEAN :
           StartBegin("ws", a[1], a[2], envOk)
    \/ StopBegin("ws")
    \/ RestartFromChannel("ws")
    \/ \E envOk \in BOOLEAN : RestartStart("ws", envOk)
    \/ RestartReturn("ws")
    \/ StartCheck("ws")
    \/ \E spawnOk \in BOOLEAN : StartBackend("ws", spawnOk)
    \/ BackendUp("ws")
    \/ BackendTimeout("ws")
    \/ \E spawnOk \in BOOLEAN : StartFrontend("ws", spawnOk)
    \/ FrontendUp("ws")
    \/ FrontendTimeout("ws")
    \/ StartCommit("ws")
    \/ \E slot \in Slots, foreignOk \in BOOLEAN : StopKill("ws", slot, foreignOk)
    \/ \E slot \in Slots : StopWaitFree("ws", slot)
    \/ StopCommit("ws")
    \/ PullBegin("ws")
    \/ \E line \in PullLines : PullLine("ws", line)
    \/ \E success \in BOOLEAN : PullEnd("ws", success)
    \/ AnswerResult("ws")
    \/ Env

AnswerSpec == Init /\ [][AnswerNext]_vars

ResultAnswered(c) == call[c].answer.type = "tool_result"

\* C36 (the claim as stated): the success field of the ToolResult is false
\* whenever the operation did not fully succeed: an error, or a result whose
\* own success field is false.
C36_ToolResultReflectsOutcome ==
    \A c \in Callers :
        ResultAnswered(c) =>
            (call[c].answer.success => call[c].res.ok /\ call[c].res.success)

\* the three cases the claim names, each answered with success = true
C36_PartialStartAnswered ==
    \E c \in Callers :
        /\ ResultAnswered(c) /\ call[c].answer.success
        /\ call[c].op = "start" /\ call[c].res.kind = "partial"

C36_FailedStopAnswered ==
    \E c \in Callers :
        /\ ResultAnswered(c) /\ call[c].answer.success
        /\ call[c].op = "stop" /\ ~call[c].res.success

C36_FailedPullAnswered ==
    \E c \in Callers :
        /\ ResultAnswered(c) /\ call[c].answer.success
        /\ call[c].op = "pull" /\ ~call[c].res.success

(***************************************************************************)
(* The result of restart_braindrive (dispatcher.rs 2303-2324)              *)
(***************************************************************************)
\* restart has returned Ok with its json
RestartReported(c) ==
    call[c].op = "restart" /\ call[c].pc = "done" /\ call[c].res.ok

\* C37 (the claim as stated): restart reports success = true only if its
\* stop phase and its start phase both reported success.
C37_RestartResult ==
    \A c \in Callers :
        RestartReported(c) /\ call[c].res.success =>
            /\ call[c].res.stop_result.success
            /\ call[c].res.start_result.success

\* the two cases the claim names, each reported with success = true
C37_PartialStartReported ==
    \E c \in Callers :
        /\ RestartReported(c) /\ call[c].res.success
        /\ call[c].res.start_result.kind = "partial"

C37_FailedStopReported ==
    \E c \in Callers :
        /\ RestartReported(c) /\ call[c].res.success
        /\ ~call[c].res.stop_result.success

(***************************************************************************)
(* A connection superseded by a later connect (websocket.rs 164-248,       *)
(* lib.rs 89-110): both share AppState.ws_sender and AppState.ws_connected *)
(***************************************************************************)
\* the connections of these behaviours: one more connect than MaxConn, so
\* that an earlier read loop and a later connect exist side by side
ConnsInTurn == 1..(MaxConn + 1)

SupersedeInit ==
    /\ state = new_process_state
    /\ call = [c \in Callers |-> Idle]
    /\ procs = [p \in Pids |-> NoProc]
    /\ nextPid = 1
    /\ foreign = {}
    /\ ws_sender = NoConn
    /\ ws_connected = FALSE
    /\ conn = [k \in ConnsInTurn |-> NoConnection]
    /\ cmds = [i \in CmdIds |-> NoCmd]
    /\ wire = <<>>

SupersedeNext ==
    \/ \E k \in ConnsInTurn, ok \in BOOLEAN : ConnectOpen(k, ok)
    \/ \E k \in ConnsInTurn : ConnectStore(k)
    \/ \E k \in ConnsInTurn : ConnectFlag(k)
    \/ \E k \in ConnsInTurn : ConnectAnnounce(k)
    \/ \E k \in ConnsInTurn, frame \in CommandFrames : LoopRead(k, frame)
    \/ \E k \in ConnsInTurn, result \in {"ok", "err"} : HandlerReturns(k, result)
    \/ \E k \in ConnsInTurn : send_tool_result(k)
    \/ \E k \in ConnsInTurn : LoopEnds(k)
    \/ \E k \in ConnsInTurn : CleanupFlag(k)
    \/ \E k \in ConnsInTurn : CleanupSender(k)
    \/ \E k \in ConnsInTurn, to \in {"close_pending", "down"} : LinkChanges(k, to)

SupersedeSpec == SupersedeInit /\ [][SupersedeNext]_vars

\* the read loop of connection k is running (spawned at 200, not yet out
\* of cleanup_connection)
LoopRunning(k) ==
    conn[k].pc \in {"read", "handle", "send_result",
                    "cleanup_connected", "cleanup_sender"}

\* a later connect has stored its sender while the loop of k is running
Superseded(k) ==
    /\ LoopRunning(k)
    /\ \E j \in ConnsInTurn :
          j > k /\ conn[j].pc \notin {"none", "store_sender", "failed"}
    /\ ws_sender # k

\* C38 (the claim as stated): once a later connect has taken over, the
\* close or read error of the earlier connection neither clears the sender
\* nor resets the connected flag of the newer connection, and the results
\* of commands received on the earlier connection are not written to the
\* newer connection.
C38_SupersededConnection ==
    [][\A k \in ConnsInTurn :
          Superseded(k) /\ conn'[k] # conn[k] =>
              /\ ws_sender' = ws_sender
              /\ ws_connected' = ws_connected
              /\ wire' # wire => wire'[Len(wire')].conn = k]_vars

\* the newer connection is up and reading, and the end of the earlier one
\* has left it without sender and without flag
C38_NewerConnectionCutOff ==
    \E k, j \in ConnsInTurn :
        /\ k < j /\ conn[k].pc = "exited"
        /\ conn[j].pc = "read" /\ conn[j].link = "up"
        /\ ws_sender = NoConn /\ ~ws_connected

\* the result of a command read on the earlier connection has been written
\* to the newer one
C38_ResultOnNewerConnection ==
    \E k, j \in ConnsInTurn, i \in 1..Len(wire) :
        /\ k < j /\ wire[i].type = "tool_result" /\ wire[i].conn = j
        /\ conn[j].last = "none" /\ conn[k].last \in CommandTypes

(***************************************************************************)
(* The connected flag and the sender (lib.rs 112-116, websocket.rs         *)
(* 177-200, 240-248)                                                       *)
(***************************************************************************)
\* no connect is between storing its sender and spawning its loop, and no
\* loop is inside cleanup_connection
NothingPartWay ==
    \A k \in Conns :
        conn[k].pc \notin {"store_sender", "set_connected", "announce",
                           "cleanup_connected", "cleanup_sender"}

\* the read loop of a connection is reading or handling
SomeLoopReading ==
    \E k \in Conns : conn[k].pc \in {"read", "handle", "send_result"}

\* C39 (the claim as stated): whenever no connect or cleanup is part-way
\* through, the connected flag is true exactly when a sender is installed
\* and a read loop is running.
C39_FlagAgreesWithSender ==
    NothingPartWay =>
        (ws_connected <=> (ws_sender # NoConn /\ SomeLoopReading))

\* after disconnect_from_backend (the flag is false): no command is taken
\* from the connection and none is answered on it
C39_NoCommandAfterDisconnect ==
    [][\A k \in Conns :
          ~ws_connected =>
              /\ ~(conn[k].pc = "read" /\ conn'[k].pc = "handle")
              /\ ~(conn[k].pc = "send_result" /\ wire' # wire)]_vars

\* after a connect that returned an error: the sender is installed and the
\* flag is true, with no read loop
C39_FailedConnectLeavesFlag ==
    \E k \in Conns :
        conn[k].pc = "failed" /\ ws_sender = k /\ ws_connected

(***************************************************************************)
(* Records persist (dispatcher.rs 2008-2023, 2279-2290, websocket.rs       *)
(* 364-375)                                                                *)
(***************************************************************************)
\* start, stop and restart (from the channel and from the GUI), one call
\* after the other, while the services bind their ports and die
RecordsNext ==
    \/ RestartOp("ws")
    \/ NoneActive /\ StopBegin("ws")
    \/ \E a \in StartArgs, envOk \in BOOLEAN :
           NoneActive /\ StartBegin("ws", a[1], a[2], envOk)
    \/ \E p \in Pids : ProcBinds(p)
    \/ \E p \in Pids : ProcDies(p)

RecordsSpec == Init /\ [][RecordsNext]_vars

\* stop_braindrive writes its commit (2279-2290)
StopCommits(c) ==
    call[c].op = "stop" /\ call[c].pc = "commit" /\ call'[c].pc # "commit"

\* restart_braindrive, entered from the channel, calls start_braindrive
ChannelRestartStarts(c) ==
    /\ call[c].op = "stop" /\ call[c].restart /\ call[c].via = "ws"
    /\ call'[c].op = "start"

\* the port recorded for a slot, NoPort without a record
RecordedPort(svc) == IF IsSome(svc) THEN svc.port ELSE NoPort

\* C40: once a slot has a record it is never removed; a stop changes only
\* the running flag and the pid of a record and leaves name and port as they
\* were (and creates no record); a restart from the channel calls start
\* with the port recorded for each slot that has a record.
C40_RecordsPersist ==
    [][/\ \A slot \in Slots : IsSome(state[slot]) => IsSome(state'[slot])
       /\ \A c \in Callers :
             /\ StopCommits(c) =>
                   \A slot \in Slots :
                       /\ state'[slot].name = state[slot].name
                       /\ state'[slot].port = state[slot].port
                       /\ ~state'[slot].running
                       /\ state'[slot].pid = NoPid
             /\ ChannelRestartStarts(c) =>
                   /\ IsSome(state.frontend) =>
                         call'[c].frontend_port = state.frontend.port
                   /\ IsSome(state.backend) =>
                         call'[c].backend_port = state.backend.port]_vars

\* a restart from the channel, after a stop of services that were started on
\* ports other than the defaults, has called start with the recorded ports
C40_Witness ==
    \E c \in Callers :
        /\ call[c].op = "start" /\ call[c].restart /\ call[c].via = "ws"
        /\ call[c].stop_done
        /\ ~state.backend.running /\ state.backend.pid = NoPid
        /\ state.backend.port = 8010 /\ call[c].backend_port = 8010
        /\ state.frontend.port = 5180 /\ call[c].frontend_port = 5180

\* a stand-alone stop has cleared running and pid of both records and left
\* their ports
C40_WitnessStop ==
    \E c \in Callers :
        /\ call[c].op = "stop" /\ call[c].pc = "done" /\ ~call[c].restart
        /\ call[c].wrote
        /\ state.backend = ServiceInfo("backend", NoPid, 8010, FALSE)
        /\ state.frontend = ServiceInfo("frontend", NoPid, 5180, FALSE)

====
